---- MODULE Spec2Model ----
(***************************************************************************)
(* Geofinder: the resumable session-state cache of the game screens.       *)
(*                                                                         *)
(* MainMenu and GameScreen (src/src/screens/MainMenu.tsx), PanoGameScreen  *)
(* (src/src/screens/PanoGameScreen.tsx) and AiDuel (src/unnamed/part_000)  *)
(* are modelled as one mounted screen instance at a time, together with    *)
(* the AsyncStorage key it persists to, the asynchronous calls it has in   *)
(* flight, the app lifecycle and a millisecond clock.                      *)
(*                                                                         *)
(* Every asynchronous call is an element of `tasks'; one action models the *)
(* completion of the call together with the continuation that runs up to   *)
(* the next await.  Values a continuation reads from the closure of the    *)
(* render that created it are carried in the task (`env').                 *)
(*                                                                         *)
(* Modelling conventions:                                                  *)
(*   - a nullable value is <<>> (null) or <<v>>;                           *)
(*   - a parsed JSON value is a tagged tuple <<"str", s>>, <<"num", n>>,   *)
(*     <<"bool", b>>, <<"null">>, <<"undef">> (property missing),          *)
(*     <<"arr", seq>> or <<"obj", record>>;                                *)
(*   - the raw text under a key is <<>> (no item), <<"garbage">> (text     *)
(*     JSON.parse rejects) or the JSON value it parses to.                 *)
(***************************************************************************)
EXTENDS Integers, Sequences, FiniteSets, TLC

VARIABLES
    screen,       \* which screen this behaviour is about
    mounted,      \* a screen instance is mounted
    inst,         \* number of the mounted (or last mounted) instance
    appState,     \* AppState.currentState
    now,          \* Date.now(), in ms since the start of the model's epoch
    ticks,        \* clock steps taken so far
    store,        \* AsyncStorage: key -> raw
    tasks,        \* asynchronous calls in flight
    mem,          \* useState values of GameScreen / PanoGameScreen
    duel,         \* useState values of AiDuel
    prefetchId,   \* prefetchIdRef.current
    skipPersist,  \* skipPersistRef.current
    summaryTimer, \* summaryTimeoutRef.current holds a pending timer
    sessions,     \* session-start calls answered so far
    exited,       \* history: the last instance was left through return-to-menu
    offline,      \* history: the session start of the current session failed
    runLength,    \* request ids a screen instance may take in this behaviour
    menu,         \* useState values and refs of MainMenu
    lost,         \* history: a persisting storage call has failed
    handed        \* history: urls of the rounds MainMenu has passed to a game screen

vars == <<screen, mounted, inst, appState, now, ticks, store, tasks, mem, duel,
          prefetchId, skipPersist, summaryTimer, sessions, exited, offline, runLength, menu, lost, handed>>

---------------------------------------------------------------------------
(* Program constants *)

TOTAL_ROUNDS == 10
GAME_STATE_MAX_AGE_MS == 1000 * 60 * 60 * 8
STATE_MAX_AGE_MS == 1000 * 60 * 60 * 8

GameKey == "geofinder.gameState.v1"
PanoKey == "geofinder.panoGameState.v1"
DuelKey == "geofinder.aiDuelState.v1"
MenuKey == "geofinder.mainMenuState.v1"
HighKey == "highScore"
HighPanoKey == "highScorePano"

(* Bounds of the model *)
MaxMounts == 2
MaxPrefetch == 2
MaxToken == 12
MaxTicks == 1
MaxTasks == 3
MaxSessions == 1

GameScreens == {"Game", "Pano"}

KeyOf(s) ==
    CASE s = "Game" -> GameKey
      [] s = "Pano" -> PanoKey
      [] s = "Menu" -> MenuKey
      [] OTHER -> DuelKey
HighKeyOf(s) == IF s = "Pano" THEN HighPanoKey ELSE HighKey
Keys == {GameKey, PanoKey, DuelKey, MenuKey, HighKey, HighPanoKey}

---------------------------------------------------------------------------
(* JSON values *)

null == <<>>
Some(v) == <<v>>

JStr(s) == <<"str", s>>
JNum(n) == <<"num", n>>
JBool(b) == <<"bool", b>>
JNull == <<"null">>
JUndef == <<"undef">>
JArr(s) == <<"arr", s>>
JObj(r) == <<"obj", r>>

\* No AiDuel instance is mounted
NoDuel == <<>>

\* No MainMenu instance is mounted
NoMenu == <<>>

NoRaw == <<>>
Garbage == <<"garbage">>

TypeOf(j) == j[1]
IsStr(j) == TypeOf(j) = "str"
IsNum(j) == TypeOf(j) = "num"
IsBool(j) == TypeOf(j) = "bool"
IsObj(j) == TypeOf(j) = "obj"
IsArr(j) == TypeOf(j) = "arr"
\* x ?? d : null and undefined are the nullish values
Nullish(j) == TypeOf(j) \in {"null", "undef"}
\* !!x
Truthy(j) ==
    CASE IsStr(j) -> j[2] # ""
      [] IsNum(j) -> j[2] # 0
      [] IsBool(j) -> j[2]
      [] Nullish(j) -> FALSE
      [] OTHER -> TRUE

JOptStr(o) == IF o = null THEN JNull ELSE JStr(o[1])

---------------------------------------------------------------------------
(* Rounds and the Round Source *)

\* A PrefetchedRound / PanoRound.  The Round Source is free to return any
\* round; the model has it return a round whose url names the request that
\* fetched it, so that the origin of a round stays visible.
Round(u, hasInfo) ==
    [image |-> [url |-> u,
                coord |-> [lat |-> 48, lon |-> 2],
                contributor |-> Some("mapper")],
     countryInfo |-> IF hasInfo
                     THEN Some([country |-> "france", countryCode |-> "FR",
                                displayName |-> "France"])
                     ELSE null]

PrefUrl(i, t) == "i" \o ToString(i) \o "p" \o ToString(t)
DirectUrl == "direct"
RouteUrl == "route"

\* What a call of getImageWithCountry / getPano can answer
FetchOutcomes == {"round", "noinfo", "absent", "throw"}
FetchFailed(o) == o \in {"absent", "throw"}
FetchedRound(u, o) == Round(u, o = "round")

SessionId(n) == "s" \o ToString(n)

---------------------------------------------------------------------------
(* In-memory state of GameScreen / PanoGameScreen *)

\* PanoGameScreen calls the field panoramaUrl; the model uses imageUrl for both.
InitMem(route) ==
    [loading |-> FALSE, imageUrl |-> null, country |-> null,
     countryCode |-> null, displayName |-> null, coord |-> null,
     contributor |-> null, guess |-> "", guessCount |-> 0,
     incorrectGuesses |-> <<>>, feedback |-> "", gameOver |-> FALSE,
     currentScore |-> 0, highScore |-> 0, nextRound |-> route,
     roundNumber |-> 1, correctAnswers |-> 0, completedRounds |-> 0,
     showGameSummary |-> FALSE, gameSessionId |-> null,
     submitToLeaderboard |-> TRUE, isContinued |-> FALSE]

PersistedFields ==
    {"imageUrl", "country", "countryCode", "displayName", "coord",
     "contributor", "guess", "guessCount", "incorrectGuesses", "feedback",
     "gameOver", "currentScore", "highScore", "nextRound", "roundNumber",
     "correctAnswers", "completedRounds", "showGameSummary", "gameSessionId",
     "submitToLeaderboard", "isContinued"}

\* lastStateRef.current: the effect copies the committed state after every
\* render, so the ref always equals the persisted fields of the state.
LastState(m) == [f \in PersistedFields |-> m[f]]

\* The values a handler created by a render reads from that render's closure
\* after an await
Env(m) == [nextRound |-> m.nextRound, completedRounds |-> m.completedRounds,
           roundNumber |-> m.roundNumber]
NoEnv == Env(InitMem(null))

---------------------------------------------------------------------------
(* JSON.stringify of a snapshot and the per-field reading of a parsed one *)

JCoord(o) == IF o = null THEN JNull
             ELSE JObj([lat |-> JNum(o[1].lat), lon |-> JNum(o[1].lon)])

JCountryInfo(o) ==
    IF o = null THEN JNull
    ELSE JObj([country |-> JStr(o[1].country),
               countryCode |-> JStr(o[1].countryCode),
               displayName |-> JStr(o[1].displayName)])

JRound(o) ==
    IF o = null THEN JNull
    ELSE JObj([image |-> JObj([url |-> JStr(o[1].image.url),
                               coord |-> JCoord(Some(o[1].image.coord)),
                               contributor |-> JOptStr(o[1].image.contributor)]),
               countryInfo |-> JCountryInfo(o[1].countryInfo)])

\* JSON.stringify({ ...snapshot, savedAt: Date.now() })
Stringify(s, t) ==
    JObj([imageUrl |-> JOptStr(s.imageUrl),
          country |-> JOptStr(s.country),
          countryCode |-> JOptStr(s.countryCode),
          displayName |-> JOptStr(s.displayName),
          coord |-> JCoord(s.coord),
          contributor |-> JOptStr(s.contributor),
          guess |-> JStr(s.guess),
          guessCount |-> JNum(s.guessCount),
          incorrectGuesses |->
              JArr([i \in DOMAIN s.incorrectGuesses |-> JStr(s.incorrectGuesses[i])]),
          feedback |-> JStr(s.feedback),
          gameOver |-> JBool(s.gameOver),
          currentScore |-> JNum(s.currentScore),
          highScore |-> JNum(s.highScore),
          nextRound |-> JRound(s.nextRound),
          roundNumber |-> JNum(s.roundNumber),
          correctAnswers |-> JNum(s.correctAnswers),
          completedRounds |-> JNum(s.completedRounds),
          showGameSummary |-> JBool(s.showGameSummary),
          gameSessionId |-> JOptStr(s.gameSessionId),
          submitToLeaderboard |-> JBool(s.submitToLeaderboard),
          isContinued |-> JBool(s.isContinued),
          savedAt |-> JNum(t)])

\* parsed.f : undefined when parsed is not an object or has no such property
Field(parsed, f) ==
    IF IsObj(parsed) /\ f \in DOMAIN parsed[2] THEN parsed[2][f] ELSE JUndef

\* typeof x === 'string' ? x : null
StrOrNull(j) == IF IsStr(j) THEN Some(j[2]) ELSE null
\* typeof x === 'string' ? x : ''
StrOrEmpty(j) == IF IsStr(j) THEN j[2] ELSE ""
\* Number.isFinite(x) ? x : d
NumOr(j, d) == IF IsNum(j) THEN j[2] ELSE d
\* Boolean(x)
ToBool(j) == Truthy(j)

CoordOf(j) ==
    IF Truthy(j) /\ IsNum(Field(j, "lat")) /\ IsNum(Field(j, "lon"))
    THEN Some([lat |-> Field(j, "lat")[2], lon |-> Field(j, "lon")[2]])
    ELSE null

\* The JavaScript value a parsed JSON value is, in the model's representation
\* of in-memory values
RECURSIVE ValueOf(_)
ValueOf(j) ==
    CASE IsStr(j) \/ IsNum(j) \/ IsBool(j) -> j[2]
      [] Nullish(j) -> null
      [] IsArr(j) -> [i \in DOMAIN j[2] |-> ValueOf(j[2][i])]
      [] IsObj(j) -> j

\* parsed.nextRound ?? null : the parsed object is put into the state as it is
RoundOf(j) ==
    IF Nullish(j) THEN null
    ELSE IF IsObj(j) /\ IsObj(Field(j, "image"))
    THEN Some([image |-> [url |-> ValueOf(Field(Field(j, "image"), "url")),
                          coord |-> CoordOf(Field(Field(j, "image"), "coord"))[1],
                          contributor |-> StrOrNull(Field(Field(j, "image"), "contributor"))],
               countryInfo |->
                   IF IsObj(Field(j, "countryInfo"))
                   THEN Some([country |-> ValueOf(Field(Field(j, "countryInfo"), "country")),
                              countryCode |-> ValueOf(Field(Field(j, "countryInfo"), "countryCode")),
                              displayName |-> ValueOf(Field(Field(j, "countryInfo"), "displayName"))])
                   ELSE null])
    ELSE Some(j)

\* Array.isArray(x) ? x.filter(g => typeof g === 'string') : []   (GameScreen)
\* Array.isArray(x) ? x : []                                      (PanoGameScreen)
GuessesDropped(s, j) == <<>>
GuessesOf(s, j) ==
    IF ~IsArr(j) THEN <<>>
    ELSE IF s = "Game" THEN ValueOf(JArr(SelectSeq(j[2], IsStr)))
    ELSE ValueOf(j)

\* The set* calls of restorePersisted(Game)State after validation
Hydrate(s, parsed, m) ==
    [m EXCEPT
       !.imageUrl = StrOrNull(Field(parsed, "imageUrl")),
       !.coord = CoordOf(Field(parsed, "coord")),
       !.contributor = StrOrNull(Field(parsed, "contributor")),
       !.country = StrOrNull(Field(parsed, "country")),
       !.countryCode = StrOrNull(Field(parsed, "countryCode")),
       !.displayName = StrOrNull(Field(parsed, "displayName")),
       !.guess = StrOrEmpty(Field(parsed, "guess")),
       !.guessCount = NumOr(Field(parsed, "guessCount"), 0),
       !.incorrectGuesses = GuessesOf(s, Field(parsed, "incorrectGuesses")),
       !.feedback = StrOrEmpty(Field(parsed, "feedback")),
       !.gameOver = ToBool(Field(parsed, "gameOver")),
       !.currentScore = NumOr(Field(parsed, "currentScore"), 0),
       \* GameScreen falls back to the highScore of the first render (0), the
       \* render whose restore callback the bootstrap effect holds
       !.highScore = NumOr(Field(parsed, "highScore"), 0),
       !.roundNumber = NumOr(Field(parsed, "roundNumber"), 1),
       !.correctAnswers = NumOr(Field(parsed, "correctAnswers"), 0),
       !.completedRounds = NumOr(Field(parsed, "completedRounds"), 0),
       !.showGameSummary = ToBool(Field(parsed, "showGameSummary")),
       !.gameSessionId = StrOrNull(Field(parsed, "gameSessionId")),
       !.submitToLeaderboard =
           IF IsBool(Field(parsed, "submitToLeaderboard"))
           THEN Field(parsed, "submitToLeaderboard")[2] ELSE TRUE,
       !.isContinued = ToBool(Field(parsed, "isContinued")),
       !.nextRound = RoundOf(Field(parsed, "nextRound")),
       !.loading = FALSE]

\* The validation of restorePersisted(Game)State before it hydrates
Malformed(parsed) ==
    \/ ~Truthy(parsed)
    \/ ~(IsObj(parsed) \/ IsArr(parsed))
    \/ ~Truthy(Field(parsed, "imageUrl"))
    \/ ~IsNum(Field(parsed, "savedAt"))

\* Date.now() - parsed.savedAt > GAME_STATE_MAX_AGE_MS
IsExpiredFromMaxAge(parsed, maxAge) == now - Field(parsed, "savedAt")[2] >= maxAge
IsExpired(parsed, maxAge) == now - Field(parsed, "savedAt")[2] > maxAge

---------------------------------------------------------------------------
(* Asynchronous calls in flight *)

\* kind: getItem / setItem / removeItem (AsyncStorage, on `key'), fetch,
\* prefetch, session, storeId, submit.  cont names the code that awaits the
\* call ("" when nobody does), tok is the prefetch request id, val the text
\* a setItem writes, env the closure values the continuation reads.
Task(i, kind, key, cont, tok, val, env) ==
    [kind |-> kind, key |-> key, inst |-> i, cont |-> cont, tok |-> tok,
     val |-> val, env |-> env]

\* The instance that issued the call is still the mounted one; the set* calls
\* of a continuation of an unmounted instance change nothing.
Live(t) == mounted /\ t.inst = inst

CanIssue(n) == Cardinality(tasks) + n <= MaxTasks

\* What the completion of a storage call does to the store
StoreAfter(t, ok) ==
    IF ~ok THEN store
    ELSE IF t.kind = "setItem" THEN [store EXCEPT ![t.key] = t.val]
    ELSE IF t.kind = "removeItem" THEN [store EXCEPT ![t.key] = NoRaw]
    ELSE store

RemoveTask(i, cont) == Task(i, "removeItem", KeyOf(screen), cont, 0, null, NoEnv)

\* persistGameState (GameScreen): remove when there is no active round,
\* otherwise write the snapshot with savedAt
persistGameStateUnstamped(i, m) ==
    IF LastState(m).imageUrl = null \/ LastState(m).imageUrl = Some("")
    THEN RemoveTask(i, "")
    ELSE Task(i, "setItem", GameKey, "", 0, Stringify(LastState(m), 0), NoEnv)
persistGameState(i, m) ==
    IF LastState(m).imageUrl = null \/ LastState(m).imageUrl = Some("")
    THEN RemoveTask(i, "")
    ELSE Task(i, "setItem", GameKey, "", 0, Stringify(LastState(m), now), NoEnv)

\* The inline persist of PanoGameScreen's AppState handler and cleanup:
\* lastStateRef.current is set by the first effect, so the write always happens
PanoPersist(i, m) ==
    Task(i, "setItem", PanoKey, "", 0, Stringify(LastState(m), now), NoEnv)

PersistTask(i, m) ==
    IF screen = "Game" THEN persistGameState(i, m) ELSE PanoPersist(i, m)

---------------------------------------------------------------------------
(* Lifecycle *)

\* Mounting a game screen: useState initial values and the mount effects
\* (loadHighScore, bootstrap -> restorePersistedGameState -> getItem)
Mount(route) ==
    /\ screen \in GameScreens
    /\ ~mounted /\ inst < MaxMounts /\ appState = "active"
    /\ CanIssue(2)
    /\ route \in (IF screen = "Game" THEN {null, Some(Round(RouteUrl, TRUE))}
                  ELSE {null})
    /\ mounted' = TRUE
    /\ inst' = inst + 1
    /\ mem' = InitMem(route)
    /\ prefetchId' = 0
    /\ skipPersist' = FALSE
    /\ summaryTimer' = FALSE
    /\ tasks' = tasks \cup
          {Task(inst + 1, "getItem", HighKeyOf(screen), "loadHigh", 0, null, NoEnv),
           Task(inst + 1, "getItem", KeyOf(screen), "restore", 0, null, NoEnv)}
    /\ exited' = FALSE /\ offline' = FALSE /\ UNCHANGED <<runLength, menu, lost, handed>>
    /\ UNCHANGED <<screen, appState, now, ticks, store, duel, sessions>>

\* if (!skipPersistRef.current) of the AppState handler and of the cleanup
ShouldPersistAlways == TRUE
ShouldPersist == ~skipPersist

\* else { skipPersistRef.current = false } of the cleanup
FlagKeptByCleanup == skipPersist
FlagAfterCleanup == FALSE

\* The cleanup of the bootstrap effect
Cleanup(ts) ==
    /\ summaryTimer' = FALSE
    /\ IF ShouldPersist
       THEN tasks' = ts \cup {PersistTask(inst, mem)}
       ELSE tasks' = ts
    /\ skipPersist' = FlagAfterCleanup
    /\ mounted' = FALSE
    /\ mem' = InitMem(null)
    /\ prefetchId' = 0

\* The screen is removed from the navigation stack (back press, navigation)
Teardown ==
    /\ screen \in GameScreens
    /\ mounted
    /\ CanIssue(1)
    /\ Cleanup(tasks)
    /\ exited' = FALSE /\ offline' = FALSE /\ UNCHANGED <<runLength, menu, lost, handed>>
    /\ UNCHANGED <<screen, inst, appState, now, ticks, store, duel, sessions>>

\* handleAppStateChange; 'inactive' is handled exactly as 'background'
handleAppStateChangeKeepsTimer(next) ==
    /\ screen \in GameScreens
    /\ next # appState
    /\ appState' = next
    /\ IF mounted /\ next = "background"
       THEN /\ UNCHANGED summaryTimer
            /\ IF ShouldPersist
               THEN /\ CanIssue(1)
                    /\ tasks' = tasks \cup {PersistTask(inst, mem)}
               ELSE UNCHANGED tasks
       ELSE UNCHANGED <<summaryTimer, tasks>>
    /\ UNCHANGED <<screen, mounted, inst, now, ticks, store, mem, duel,
                   prefetchId, skipPersist, sessions, exited, offline, runLength, menu, lost, handed>>
handleAppStateChange(next) ==
    /\ screen \in GameScreens
    /\ next # appState
    /\ appState' = next
    /\ IF mounted /\ next = "background"
       THEN /\ summaryTimer' = FALSE
            /\ IF ShouldPersist
               THEN /\ CanIssue(1)
                    /\ tasks' = tasks \cup {PersistTask(inst, mem)}
               ELSE UNCHANGED tasks
       ELSE UNCHANGED <<summaryTimer, tasks>>
    /\ UNCHANGED <<screen, mounted, inst, now, ticks, store, mem, duel,
                   prefetchId, skipPersist, sessions, exited, offline, runLength, menu, lost, handed>>

\* The process is killed: nothing in flight survives, no handler runs
Kill ==
    /\ mounted \/ tasks # {}
    /\ mounted' = FALSE
    /\ tasks' = {}
    /\ appState' = "active"
    /\ mem' = InitMem(null)
    /\ prefetchId' = 0
    /\ skipPersist' = FALSE
    /\ summaryTimer' = FALSE
    /\ exited' = FALSE /\ offline' = FALSE /\ UNCHANGED <<runLength, lost, handed>> /\ menu' = NoMenu
    /\ duel' = NoDuel
    /\ UNCHANGED <<screen, inst, now, ticks, store, sessions>>

Tick(d) ==
    /\ ticks < MaxTicks
    /\ ticks' = ticks + 1
    /\ now' = now + d
    /\ UNCHANGED <<screen, mounted, inst, appState, store, tasks, mem, duel,
                   prefetchId, skipPersist, summaryTimer, sessions, exited, offline, runLength, menu, lost, handed>>

\* A variant in which the rejection of the storage promise is not caught and
\* takes the screen down
StorageDoneUncaught(t, ok) ==
    /\ t \in tasks
    /\ t.kind \in {"setItem", "removeItem"} /\ t.cont = ""
    /\ store' = StoreAfter(t, ok)
    /\ tasks' = tasks \ {t}
    /\ lost' = (lost \/ ~ok) /\ UNCHANGED handed
    /\ mounted' = (mounted /\ ok)
    /\ UNCHANGED <<screen, inst, appState, now, ticks, mem, duel,
                   prefetchId, skipPersist, summaryTimer, sessions, exited, offline,
                   runLength, menu>>
\* A setItem / removeItem nobody awaits (or whose awaiter does nothing more)
\* settles: a rejection is caught and logged
StorageDone(t, ok) ==
    /\ t \in tasks
    /\ t.kind \in {"setItem", "removeItem"} /\ t.cont = ""
    /\ store' = StoreAfter(t, ok)
    /\ tasks' = tasks \ {t}
    /\ lost' = (lost \/ ~ok) /\ UNCHANGED handed
    /\ UNCHANGED <<screen, mounted, inst, appState, now, ticks, mem, duel,
                   prefetchId, skipPersist, summaryTimer, sessions, exited, offline,
                   runLength, menu>>

---------------------------------------------------------------------------
(* Round start and prefetch *)

\* The synchronous head of startGame
ClearRound(s, m, env) ==
    [m EXCEPT
       !.showGameSummary = FALSE,
       !.completedRounds = IF env.completedRounds >= TOTAL_ROUNDS THEN 0 ELSE @,
       !.roundNumber = IF env.completedRounds >= TOTAL_ROUNDS THEN 1 ELSE @,
       !.loading = IF s = "Game" /\ env.nextRound # null THEN @ ELSE TRUE,
       !.imageUrl = null, !.country = null, !.countryCode = null,
       !.displayName = null, !.coord = null, !.contributor = null,
       !.guess = "", !.guessCount = 0, !.incorrectGuesses = <<>>,
       !.feedback = "", !.gameOver = FALSE]

\* The set* calls of startGame once it has roundData, and its finally block
ShowRound(m, r) ==
    [m EXCEPT
       !.imageUrl = Some(r.image.url),
       !.coord = Some(r.image.coord),
       !.contributor = r.image.contributor,
       !.country = IF r.countryInfo # null THEN Some(r.countryInfo[1].country) ELSE @,
       !.countryCode = IF r.countryInfo # null THEN Some(r.countryInfo[1].countryCode) ELSE @,
       !.displayName = IF r.countryInfo # null THEN Some(r.countryInfo[1].displayName)
                       ELSE Some("Unknown"),
       !.loading = FALSE]

\* GameScreen prefetches after every round start, PanoGameScreen only when
\* the roundNumber of the calling render is above 1
PrefetchAfterStart(s, env) == s = "Game" \/ env.roundNumber > 1

\* prefetchNextRound up to its await: take the next request id
prefetchNextRound(ts) ==
    /\ prefetchId < runLength
    /\ prefetchId' = prefetchId + 1
    /\ tasks' = ts \cup {Task(inst, "prefetch", "", "", prefetchId + 1, null, NoEnv)}

\* startGame up to its first await (or to its end when the slot is filled);
\* m is the state after the caller's own updates, env the caller's closure
startGame(m, env, ts) ==
    /\ summaryTimer' = FALSE
    /\ IF env.nextRound # null
       THEN /\ mem' = ShowRound([ClearRound(screen, m, env) EXCEPT !.nextRound = null],
                                env.nextRound[1])
            /\ IF PrefetchAfterStart(screen, env)
               THEN prefetchNextRound(ts)
               ELSE tasks' = ts /\ UNCHANGED prefetchId
       ELSE /\ mem' = ClearRound(screen, m, env)
            /\ tasks' = ts \cup {Task(inst, "fetch", "", "", 0, null, env)}
            /\ UNCHANGED prefetchId

\* startGame after `await getImageWithCountry()' / `await getPano()'
FetchDone(t, o) ==
    /\ t \in tasks /\ t.kind = "fetch"
    /\ o \in FetchOutcomes
    /\ IF ~Live(t)
       THEN /\ tasks' = tasks \ {t}
            /\ UNCHANGED <<mem, prefetchId>>
       ELSE IF FetchFailed(o)
       THEN /\ mem' = [mem EXCEPT !.loading = FALSE]
            /\ tasks' = tasks \ {t}
            /\ UNCHANGED prefetchId
       ELSE /\ mem' = ShowRound(mem, FetchedRound(DirectUrl, o))
            /\ IF PrefetchAfterStart(screen, t.env)
               THEN prefetchNextRound(tasks \ {t})
               ELSE tasks' = tasks \ {t} /\ UNCHANGED prefetchId
    /\ UNCHANGED <<screen, mounted, inst, appState, now, ticks, store, duel,
                   skipPersist, summaryTimer, sessions, exited, offline, runLength, menu, lost, handed>>

\* The write of prefetchNextRound: only when its request id is still current
AcceptAnyPrefetch(t) == TRUE
AcceptPrefetch(t) == prefetchId = t.tok

\* prefetchNextRound after its await
PrefetchDone(t, o) ==
    /\ t \in tasks /\ t.kind = "prefetch"
    /\ o \in FetchOutcomes
    /\ tasks' = tasks \ {t}
    /\ IF Live(t) /\ ~FetchFailed(o) /\ AcceptPrefetch(t)
       THEN mem' = [mem EXCEPT !.nextRound = Some(FetchedRound(PrefUrl(t.inst, t.tok), o))]
       ELSE UNCHANGED mem
    /\ UNCHANGED <<screen, mounted, inst, appState, now, ticks, store, duel,
                   prefetchId, skipPersist, summaryTimer, sessions, exited, offline, runLength, menu, lost, handed>>

---------------------------------------------------------------------------
(* Bootstrap: restore, clear, session start *)

\* initializeGameSession up to `await startGameSession()'
initializeGameSession(m, env, ts) ==
    /\ mem' = [m EXCEPT !.loading = TRUE]
    /\ tasks' = ts \cup {Task(inst, "session", "", "", 0, null, env)}

\* restorePersistedGameState after `await getItem', and the part of bootstrap
\* that follows when restore returns without a further await
RestoreDone(t, ok) ==
    /\ t \in tasks /\ t.kind = "getItem" /\ t.cont = "restore"
    /\ LET raw == store[t.key]
           ts == tasks \ {t}
       IN IF ~ok \/ raw = NoRaw \/ raw = Garbage
          THEN \* getItem threw, no item, or JSON.parse threw: restore
               \* returns false; bootstrap goes on to clearPersistedGameState
               /\ tasks' = IF Live(t) THEN ts \cup {RemoveTask(t.inst, "bootClear")} ELSE ts
               /\ UNCHANGED <<mem, prefetchId>>
          ELSE IF Malformed(raw) \/ IsExpired(raw, GAME_STATE_MAX_AGE_MS)
          THEN \* await clearPersistedGameState() inside restore
               /\ tasks' = ts \cup {RemoveTask(t.inst, "restoreClear")}
               /\ UNCHANGED <<mem, prefetchId>>
          ELSE IF Live(t)
          THEN \* hydrate, return true; bootstrap: setLoading(false), prefetch
               /\ mem' = Hydrate(screen, raw, mem)
               /\ prefetchNextRound(ts)
          ELSE /\ tasks' = ts
               /\ UNCHANGED <<mem, prefetchId>>
    /\ UNCHANGED <<screen, mounted, inst, appState, now, ticks, store, duel,
                   skipPersist, summaryTimer, sessions, exited, offline, runLength, menu, lost, handed>>

\* clearPersistedGameState awaited by restore completes: restore returns
\* false and bootstrap issues its own clearPersistedGameState
RestoreClearDone(t, ok) ==
    /\ t \in tasks /\ t.kind = "removeItem" /\ t.cont = "restoreClear"
    /\ store' = StoreAfter(t, ok)
    /\ tasks' = IF Live(t) THEN (tasks \ {t}) \cup {RemoveTask(t.inst, "bootClear")}
                ELSE tasks \ {t}
    /\ UNCHANGED <<screen, mounted, inst, appState, now, ticks, mem, duel,
                   prefetchId, skipPersist, summaryTimer, sessions, exited, offline, runLength, menu, lost, handed>>

\* bootstrap after `await clearPersistedGameState()': initializeGameSession
\* of the first render
BootClearDone(t, ok) ==
    /\ t \in tasks /\ t.kind = "removeItem" /\ t.cont = "bootClear"
    /\ store' = StoreAfter(t, ok)
    /\ IF Live(t)
       THEN initializeGameSession(mem, Env(mem), tasks \ {t})
       ELSE tasks' = tasks \ {t} /\ UNCHANGED mem
    /\ UNCHANGED <<screen, mounted, inst, appState, now, ticks, duel,
                   prefetchId, skipPersist, summaryTimer, sessions, exited, offline, runLength, menu, lost, handed>>

\* initializeGameSession after `await startGameSession()'
SessionDone(t, ok) ==
    /\ t \in tasks /\ t.kind = "session"
    /\ IF ~Live(t)
       THEN /\ tasks' = tasks \ {t}
            /\ UNCHANGED <<mem, prefetchId, summaryTimer, sessions, offline>>
       ELSE IF ok
       THEN /\ sessions < MaxSessions
            /\ sessions' = sessions + 1
            /\ mem' = [mem EXCEPT !.gameSessionId = Some(SessionId(sessions + 1))]
            /\ tasks' = (tasks \ {t}) \cup {Task(inst, "storeId", "", "", 0, null, t.env)}
            /\ offline' = FALSE
            /\ UNCHANGED <<prefetchId, summaryTimer>>
       ELSE \* catch: the alert, then startGame; gameSessionId keeps its value
            /\ startGame(mem, t.env, tasks \ {t})
            /\ offline' = TRUE
            /\ UNCHANGED sessions
    /\ UNCHANGED <<screen, mounted, inst, appState, now, ticks, store, duel,
                   skipPersist, exited, runLength, menu, lost, handed>>

\* initializeGameSession after `await storeGameSessionId(...)', which catches
\* its own storage errors
StoreIdDone(t) ==
    /\ t \in tasks /\ t.kind = "storeId"
    /\ IF Live(t)
       THEN startGame(mem, t.env, tasks \ {t})
       ELSE tasks' = tasks \ {t} /\ UNCHANGED <<mem, prefetchId, summaryTimer>>
    /\ UNCHANGED <<screen, mounted, inst, appState, now, ticks, store, duel,
                   skipPersist, sessions, exited, offline, runLength, menu, lost, handed>>

\* loadHighScore after `await getItem('highScore')'
LoadHighDone(t, ok) ==
    /\ t \in tasks /\ t.kind = "getItem" /\ t.cont = "loadHigh"
    /\ tasks' = tasks \ {t}
    /\ IF Live(t) /\ ok /\ store[t.key] # NoRaw /\ IsNum(store[t.key])
       THEN mem' = [mem EXCEPT !.highScore = store[t.key][2]]
       ELSE UNCHANGED mem
    /\ UNCHANGED <<screen, mounted, inst, appState, now, ticks, store, duel,
                   prefetchId, skipPersist, summaryTimer, sessions, exited, offline, runLength, menu, lost, handed>>

---------------------------------------------------------------------------
(* Guessing and scoring *)

GuessInputs == {"France", "Spain"}

\* normalizeCountry and matchGuess of services/geoApiUtils: the guess is
\* compared case-insensitively with the country's name and with its code
normalizeCountry(g) ==
    CASE g = "France" -> "france"
      [] g = "Spain" -> "spain"
      [] g = "FR" -> "fr"
      [] OTHER -> g

matchGuess(n, country, countryCode) ==
    \/ country # null /\ n = country[1]
    \/ countryCode # null /\ n = normalizeCountry(countryCode[1])

\* pointsEarned of submitGuess, from newGuessCount
PointsAlwaysThree(newGuessCount) == 3
PointsEarned(newGuessCount) ==
    IF newGuessCount = 1 THEN 3
    ELSE IF newGuessCount = 2 THEN 2
    ELSE IF newGuessCount = 3 THEN 1
    ELSE 0

\* if (newScore > highScore) setHighScore(newScore)
HighScoreAlwaysNew(newScore, highScore) == newScore
HighScoreAfter(newScore, highScore) ==
    IF newScore > highScore THEN newScore ELSE highScore

\* The TextInput and the Submit button are rendered
InputShown(m) ==
    ~m.gameOver /\ m.imageUrl # null /\ m.imageUrl # Some("") /\ ~m.showGameSummary

UserCan == mounted /\ appState = "active" /\ screen \in GameScreens

\* onChangeText={setGuess}
TypeGuess(g) ==
    /\ UserCan /\ InputShown(mem)
    /\ g \in GuessInputs /\ g # mem.guess
    /\ mem' = [mem EXCEPT !.guess = g]
    /\ UNCHANGED <<screen, mounted, inst, appState, now, ticks, store, tasks,
                   duel, prefetchId, skipPersist, summaryTimer, sessions, exited, offline, runLength, menu, lost, handed>>

\* if (isContinued) setCurrentScore(currentScore - 1), in the branch of the
\* third wrong guess
FailedRoundScoreFloored(score, isContinued) ==
    IF isContinued /\ score > 0 THEN score - 1 ELSE score
FailedRoundScore(score, isContinued) ==
    IF isContinued THEN score - 1 ELSE score

\* The state submitGuess leaves, without completedRounds / roundNumber
GuessResultNoHistory(m) ==
    LET isCorrect == matchGuess(normalizeCountry(m.guess), m.country, m.countryCode)
        newGuessCount == m.guessCount + 1
    IN IF isCorrect
       THEN [m EXCEPT
               !.guessCount = newGuessCount,
               !.feedback = "Correct",
               !.gameOver = TRUE,
               !.correctAnswers = @ + 1,
               !.currentScore = @ + PointsEarned(newGuessCount),
               !.highScore = HighScoreAfter(m.currentScore + PointsEarned(newGuessCount), @),
               !.guess = ""]
       ELSE [m EXCEPT
               !.guessCount = newGuessCount,
               !.feedback = IF newGuessCount >= 3 THEN "GameOver" ELSE "NotQuite",
               !.currentScore = IF newGuessCount >= 3 /\ m.isContinued THEN @ - 1 ELSE @,
               !.gameOver = IF newGuessCount >= 2 THEN TRUE ELSE @,
               !.guess = ""]
GuessResult(m) ==
    LET isCorrect == matchGuess(normalizeCountry(m.guess), m.country, m.countryCode)
        newGuessCount == m.guessCount + 1
    IN IF isCorrect
       THEN [m EXCEPT
               !.guessCount = newGuessCount,
               !.feedback = "Correct",
               !.gameOver = TRUE,
               !.correctAnswers = @ + 1,
               !.currentScore = @ + PointsEarned(newGuessCount),
               !.highScore = HighScoreAfter(m.currentScore + PointsEarned(newGuessCount), @),
               !.guess = ""]
       ELSE [m EXCEPT
               !.guessCount = newGuessCount,
               !.incorrectGuesses = Append(@, m.guess),
               !.feedback = IF newGuessCount >= 3 THEN "GameOver" ELSE "NotQuite",
               !.currentScore = IF newGuessCount >= 3 THEN FailedRoundScore(@, m.isContinued)
                                ELSE @,
               !.gameOver = IF newGuessCount >= 3 THEN TRUE ELSE @,
               !.guess = ""]

submitGuess ==
    /\ UserCan /\ InputShown(mem)
    /\ mem.guess # ""
    /\ LET isCorrect == matchGuess(normalizeCountry(mem.guess), mem.country, mem.countryCode)
           newGuessCount == mem.guessCount + 1
           roundDone == isCorrect \/ newGuessCount >= 3
           updatedCompleted == mem.completedRounds + 1
           newScore == mem.currentScore + PointsEarned(newGuessCount)
           m1 == GuessResult(mem)
       IN /\ mem' = IF ~roundDone THEN m1
                    ELSE [m1 EXCEPT
                            !.completedRounds = updatedCompleted,
                            !.roundNumber = IF updatedCompleted >= TOTAL_ROUNDS THEN @ ELSE @ + 1]
          \* scheduleSummaryModal(summaryTimeoutRef, setShowGameSummary)
          /\ summaryTimer' = IF roundDone /\ updatedCompleted >= TOTAL_ROUNDS
                             THEN TRUE ELSE summaryTimer
          \* AsyncStorage.setItem('highScore', newScore.toString()), not awaited
          /\ IF isCorrect /\ newScore > mem.highScore
             THEN /\ CanIssue(1)
                  /\ tasks' = tasks \cup {Task(inst, "setItem", HighKeyOf(screen), "", 0,
                                               JNum(newScore), NoEnv)}
             ELSE UNCHANGED tasks
    /\ UNCHANGED <<screen, mounted, inst, appState, now, ticks, store, duel,
                   prefetchId, skipPersist, sessions, exited, offline, runLength, menu, lost, handed>>

\* The summary timer armed by scheduleSummaryModal fires
SummaryTimerFires ==
    /\ screen \in GameScreens /\ mounted /\ summaryTimer
    /\ summaryTimer' = FALSE
    /\ mem' = [mem EXCEPT !.showGameSummary = TRUE]
    /\ UNCHANGED <<screen, mounted, inst, appState, now, ticks, store, tasks,
                   duel, prefetchId, skipPersist, sessions, exited, offline, runLength, menu, lost, handed>>

---------------------------------------------------------------------------
(* Buttons *)

\* The Next Game button
NextGame ==
    /\ UserCan
    /\ mem.gameOver /\ mem.completedRounds < TOTAL_ROUNDS /\ ~mem.showGameSummary
    /\ CanIssue(1)
    /\ startGame(mem, Env(mem), tasks)
    /\ UNCHANGED <<screen, mounted, inst, appState, now, ticks, store, duel,
                   skipPersist, sessions, exited, offline, runLength, menu, lost, handed>>

continueGameUnflagged ==
    /\ UserCan /\ mem.showGameSummary
    /\ CanIssue(1)
    /\ startGame([mem EXCEPT !.roundNumber = 1, !.completedRounds = 0,
                             !.showGameSummary = FALSE],
                 Env(mem), tasks)
    /\ UNCHANGED <<screen, mounted, inst, appState, now, ticks, store, duel,
                   skipPersist, sessions, exited, offline, runLength, menu, lost, handed>>
continueGame ==
    /\ UserCan /\ mem.showGameSummary
    /\ CanIssue(1)
    /\ startGame([mem EXCEPT !.roundNumber = 1, !.completedRounds = 0,
                             !.showGameSummary = FALSE, !.isContinued = TRUE],
                 Env(mem), tasks)
    /\ UNCHANGED <<screen, mounted, inst, appState, now, ticks, store, duel,
                   skipPersist, sessions, exited, offline, runLength, menu, lost, handed>>

ToggleLeaderboard ==
    /\ UserCan /\ mem.showGameSummary
    /\ mem' = [mem EXCEPT !.submitToLeaderboard = ~@]
    /\ UNCHANGED <<screen, mounted, inst, appState, now, ticks, store, tasks,
                   duel, prefetchId, skipPersist, summaryTimer, sessions, exited, offline, runLength, menu, lost, handed>>

\* submitToLeaderboard && gameSessionId && currentScore > 0
WillSubmitAnyScore(m) ==
    m.submitToLeaderboard /\ m.gameSessionId # null /\ m.gameSessionId # Some("")
WillSubmit(m) ==
    m.submitToLeaderboard /\ m.gameSessionId # null /\ m.gameSessionId # Some("")
    /\ m.currentScore > 0

\* The resets of the New Game handler
NewGameReset(m) ==
    [m EXCEPT !.currentScore = 0, !.correctAnswers = 0, !.completedRounds = 0,
              !.roundNumber = 1, !.isContinued = FALSE]

\* The New Game button, up to its first await
NewGame ==
    /\ UserCan /\ mem.showGameSummary
    /\ CanIssue(1)
    /\ IF WillSubmit(mem)
       THEN /\ tasks' = tasks \cup {Task(inst, "submit", "", "newGame", 0, null, Env(mem))}
            /\ UNCHANGED mem
       ELSE initializeGameSession(NewGameReset(mem), Env(mem), tasks)
    /\ UNCHANGED <<screen, mounted, inst, appState, now, ticks, store, duel,
                   prefetchId, skipPersist, summaryTimer, sessions, exited, offline, runLength, menu, lost, handed>>

\* The New Game handler after `await submitScore(...)'
NewGameSubmitDone(t, ok) ==
    /\ t \in tasks /\ t.kind = "submit" /\ t.cont = "newGame"
    /\ IF ~ok
       THEN \* catch: the error alert, nothing else
            tasks' = tasks \ {t} /\ UNCHANGED mem
       ELSE IF Live(t)
       THEN initializeGameSession(NewGameReset(mem), t.env, tasks \ {t})
       ELSE \* the set* calls of an unmounted screen change nothing, the
            \* session start is called all the same
            /\ tasks' = (tasks \ {t}) \cup {Task(t.inst, "session", "", "", 0, null, t.env)}
            /\ UNCHANGED mem
    /\ UNCHANGED <<screen, mounted, inst, appState, now, ticks, store, duel,
                   prefetchId, skipPersist, summaryTimer, sessions, exited, offline, runLength, menu, lost, handed>>

\* skipPersistRef.current = true, the first statement of handleReturnToMainMenu
ExitFlagLate == skipPersist
ExitFlag == TRUE

\* handleReturnToMainMenu up to its first await
handleReturnToMainMenu ==
    /\ UserCan /\ mem.showGameSummary
    /\ CanIssue(1)
    /\ skipPersist' = ExitFlag
    /\ tasks' = tasks \cup
          {IF WillSubmit(mem) THEN Task(inst, "submit", "", "exit", 0, null, NoEnv)
           ELSE RemoveTask(inst, "exitClear")}
    /\ UNCHANGED <<screen, mounted, inst, appState, now, ticks, store, mem, duel,
                   prefetchId, summaryTimer, sessions, exited, offline, runLength, menu, lost, handed>>

\* handleReturnToMainMenu after `await submitScore(...)', whatever its outcome
ExitSubmitDone(t, ok) ==
    /\ t \in tasks /\ t.kind = "submit" /\ t.cont = "exit"
    /\ tasks' = (tasks \ {t}) \cup {RemoveTask(t.inst, "exitClear")}
    /\ UNCHANGED <<screen, mounted, inst, appState, now, ticks, store, mem, duel,
                   prefetchId, skipPersist, summaryTimer, sessions, exited, offline, runLength, menu, lost, handed>>

\* handleReturnToMainMenu after `await clearPersistedGameState()': the
\* navigation to MainMenu unmounts the screen, which runs the cleanup
ExitClearDone(t, ok) ==
    /\ t \in tasks /\ t.kind = "removeItem" /\ t.cont = "exitClear"
    /\ store' = StoreAfter(t, ok)
    /\ IF Live(t)
       THEN Cleanup(tasks \ {t}) /\ exited' = TRUE /\ offline' = FALSE /\ UNCHANGED <<runLength, menu, lost, handed>>
       ELSE /\ tasks' = tasks \ {t}
            /\ UNCHANGED <<mounted, mem, prefetchId, skipPersist, summaryTimer, exited, offline, runLength, menu, lost, handed>>
    /\ UNCHANGED <<screen, inst, appState, now, ticks, duel, sessions>>

\* PanoGameScreen's hardware back handler while the summary is shown
backAction ==
    /\ screen = "Pano" /\ mounted /\ appState = "active"
    /\ mem.showGameSummary
    /\ mem' = [mem EXCEPT !.showGameSummary = FALSE]
    /\ UNCHANGED <<screen, mounted, inst, appState, now, ticks, store, tasks,
                   duel, prefetchId, skipPersist, summaryTimer, sessions, exited, offline, runLength, menu, lost, handed>>

---------------------------------------------------------------------------
(* AiDuel *)

DEFAULT_SCORES == [player |-> 0, ai |-> 0]

\* Rounds of a match of the match service (response.totalRounds)
DUEL_ROUNDS == 3

\* An AiDuelRound of the match service
DuelRound(i) == [roundIndex |-> i, imageUrl |-> "duel" \o ToString(i)]

MatchId(n) == "m" \o ToString(n)

\* The useState initial values of AiDuel; route is the url of
\* route.params.prefetchedRound or null
InitDuel(route) ==
    [loading |-> TRUE, submitting |-> FALSE, errorMessage |-> "",
     matchId |-> null, currentRound |-> null, queuedRound |-> null,
     totalRounds |-> 0, scores |-> DEFAULT_SCORES, status |-> "in-progress",
     guess |-> "", latestResult |-> null, history |-> <<>>, zoomImage |-> FALSE,
     prefetchedImageUrl |-> route, prefetchedRoundUrl |-> route]

DuelPersistedFields ==
    {"matchId", "currentRound", "queuedRound", "totalRounds", "scores", "status",
     "guess", "latestResult", "history", "prefetchedImageUrl",
     "prefetchedRoundUrl", "errorMessage"}

\* lastStateRef.current of AiDuel
LastDuel(d) == [f \in DuelPersistedFields |-> d[f]]

JDuelRound(o) ==
    IF o = null THEN JNull
    ELSE JObj([roundIndex |-> JNum(o[1].roundIndex), imageUrl |-> JStr(o[1].imageUrl)])

JScores(sc) == JObj([player |-> JNum(sc.player), ai |-> JNum(sc.ai)])

JResult(o) == IF o = null THEN JNull ELSE JObj([correct |-> JBool(o[1].correct)])

\* JSON.stringify({ ...snapshot, savedAt: Date.now() })
StringifyDuel(s, t) ==
    JObj([matchId |-> JOptStr(s.matchId),
          currentRound |-> JDuelRound(s.currentRound),
          queuedRound |-> JDuelRound(s.queuedRound),
          totalRounds |-> JNum(s.totalRounds),
          scores |-> JScores(s.scores),
          status |-> JStr(s.status),
          guess |-> JStr(s.guess),
          latestResult |-> JResult(s.latestResult),
          history |-> JArr([i \in DOMAIN s.history |-> JNum(s.history[i])]),
          prefetchedImageUrl |-> JOptStr(s.prefetchedImageUrl),
          prefetchedRoundUrl |-> JOptStr(s.prefetchedRoundUrl),
          errorMessage |-> JStr(s.errorMessage),
          savedAt |-> JNum(t)])

\* parsed.currentRound ?? null
DuelRoundOf(j) ==
    IF Nullish(j) THEN null
    ELSE IF IsObj(j)
    THEN Some([roundIndex |-> ValueOf(Field(j, "roundIndex")),
               imageUrl |-> ValueOf(Field(j, "imageUrl"))])
    ELSE Some(j)

ScoresOf(j) ==
    IF Nullish(j) THEN DEFAULT_SCORES
    ELSE [player |-> ValueOf(Field(j, "player")), ai |-> ValueOf(Field(j, "ai"))]

ResultOf(j) ==
    IF Nullish(j) THEN null ELSE Some([correct |-> ValueOf(Field(j, "correct"))])

\* The set* calls of restorePersistedAiDuelState
HydrateDuel(parsed, d) ==
    [d EXCEPT
       !.matchId = StrOrNull(Field(parsed, "matchId")),
       !.currentRound = DuelRoundOf(Field(parsed, "currentRound")),
       !.queuedRound = DuelRoundOf(Field(parsed, "queuedRound")),
       !.totalRounds = NumOr(Field(parsed, "totalRounds"), 0),
       !.scores = ScoresOf(Field(parsed, "scores")),
       !.status = IF Nullish(Field(parsed, "status")) THEN "in-progress"
                  ELSE ValueOf(Field(parsed, "status")),
       !.guess = StrOrEmpty(Field(parsed, "guess")),
       !.latestResult = ResultOf(Field(parsed, "latestResult")),
       !.history = IF IsArr(Field(parsed, "history"))
                   THEN ValueOf(Field(parsed, "history")) ELSE <<>>,
       !.prefetchedImageUrl =
           IF IsStr(Field(parsed, "prefetchedImageUrl"))
           THEN StrOrNull(Field(parsed, "prefetchedImageUrl"))
           ELSE IF Nullish(Field(parsed, "prefetchedRoundUrl")) THEN null
           ELSE Some(ValueOf(Field(parsed, "prefetchedRoundUrl"))),
       !.errorMessage = StrOrEmpty(Field(parsed, "errorMessage")),
       !.loading = FALSE, !.submitting = FALSE, !.zoomImage = FALSE]

\* !parsed || typeof parsed.savedAt !== 'number'
DuelMalformed(parsed) ==
    ~Truthy(parsed) \/ ~IsNum(Field(parsed, "savedAt"))

\* Boolean(parsed.matchId || parsed.currentRound)
DuelRestored(parsed) ==
    Truthy(Field(parsed, "matchId")) \/ Truthy(Field(parsed, "currentRound"))

\* persistAiDuelState: remove when the snapshot has no matchId, no
\* prefetchedImageUrl and no currentRound, otherwise write it
persistAiDuelState(i, d) ==
    IF /\ d.matchId \in {null, Some("")}
       /\ d.prefetchedImageUrl \in {null, Some("")}
       /\ d.currentRound = null
    THEN Task(i, "removeItem", DuelKey, "", 0, null, NoEnv)
    ELSE Task(i, "setItem", DuelKey, "", 0, StringifyDuel(LastDuel(d), now), NoEnv)

\* clearPersistedAiDuelState up to its await; cont names who awaits it
clearPersistedAiDuelState(i, cont) ==
    Task(i, "removeItem", DuelKey, cont, 0, null, NoEnv)

\* resetState
resetState(d) ==
    [d EXCEPT !.guess = "", !.scores = DEFAULT_SCORES, !.queuedRound = null,
              !.latestResult = null, !.history = <<>>, !.status = "in-progress",
              !.errorMessage = "", !.currentRound = null, !.matchId = null]

\* Mounting AiDuel: the hydrate effect calls restorePersistedAiDuelState
MountDuel(route) ==
    /\ screen = "AiDuel"
    /\ ~mounted /\ inst < MaxMounts /\ appState = "active"
    /\ CanIssue(1)
    /\ mounted' = TRUE
    /\ inst' = inst + 1
    /\ duel' = InitDuel(route)
    /\ exited' = FALSE /\ offline' = FALSE /\ UNCHANGED <<runLength, menu, lost, handed>>
    /\ tasks' = tasks \cup {Task(inst + 1, "getItem", DuelKey, "duelRestore", 0, null, NoEnv)}
    /\ UNCHANGED <<screen, appState, now, ticks, store, mem, prefetchId,
                   skipPersist, summaryTimer, sessions>>

\* bootstrap up to `await clearPersistedAiDuelState()'
bootstrap(d, ts) ==
    /\ duel' = [d EXCEPT !.loading = TRUE]
    /\ tasks' = ts \cup {clearPersistedAiDuelState(inst, "duelBoot")}

\* restorePersistedAiDuelState after `await getItem', and the part of hydrate
\* that follows when restore returns without a further await
DuelRestoreDone(t, ok) ==
    /\ t \in tasks /\ t.kind = "getItem" /\ t.cont = "duelRestore"
    /\ LET raw == store[t.key]
           ts == tasks \ {t}
       IN IF ~ok \/ raw = NoRaw \/ raw = Garbage
          THEN IF Live(t) THEN bootstrap(duel, ts)
               ELSE tasks' = ts /\ UNCHANGED duel
          ELSE IF DuelMalformed(raw) \/ IsExpired(raw, STATE_MAX_AGE_MS)
          THEN /\ tasks' = ts \cup {clearPersistedAiDuelState(t.inst, "duelRestoreClear")}
               /\ UNCHANGED duel
          ELSE IF ~Live(t)
          THEN tasks' = ts /\ UNCHANGED duel
          ELSE IF DuelRestored(raw)
          THEN tasks' = ts /\ duel' = HydrateDuel(raw, duel)
          ELSE bootstrap(HydrateDuel(raw, duel), ts)
    /\ UNCHANGED <<screen, mounted, inst, appState, now, ticks, store, mem,
                   prefetchId, skipPersist, summaryTimer, sessions, exited, offline, runLength, menu, lost, handed>>

\* clearPersistedAiDuelState awaited by restore completes: restore returns
\* false and hydrate calls bootstrap
DuelRestoreClearDone(t, ok) ==
    /\ t \in tasks /\ t.kind = "removeItem" /\ t.cont = "duelRestoreClear"
    /\ store' = StoreAfter(t, ok)
    /\ IF Live(t) THEN bootstrap(duel, tasks \ {t})
       ELSE tasks' = tasks \ {t} /\ UNCHANGED duel
    /\ UNCHANGED <<screen, mounted, inst, appState, now, ticks, mem,
                   prefetchId, skipPersist, summaryTimer, sessions, exited, offline, runLength, menu, lost, handed>>

\* bootstrap after `await clearPersistedAiDuelState()': resetState and the
\* call of startAiMatch, whether or not the screen is still mounted
DuelBootClearDone(t, ok) ==
    /\ t \in tasks /\ t.kind = "removeItem" /\ t.cont = "duelBoot"
    /\ store' = StoreAfter(t, ok)
    /\ duel' = IF Live(t) THEN resetState(duel) ELSE duel
    /\ tasks' = (tasks \ {t}) \cup {Task(t.inst, "match", "", "", 0, null, NoEnv)}
    /\ UNCHANGED <<screen, mounted, inst, appState, now, ticks, mem,
                   prefetchId, skipPersist, summaryTimer, sessions, exited, offline, runLength, menu, lost, handed>>

\* bootstrap after `await startAiMatch()'
MatchDone(t, ok) ==
    /\ t \in tasks /\ t.kind = "match"
    /\ tasks' = tasks \ {t}
    /\ IF ok
       THEN /\ sessions < MaxSessions
            /\ sessions' = sessions + 1
            /\ duel' = IF Live(t)
                       THEN [duel EXCEPT
                               !.matchId = Some(MatchId(sessions + 1)),
                               !.currentRound = Some(DuelRound(0)),
                               !.totalRounds = DUEL_ROUNDS,
                               !.scores = DEFAULT_SCORES,
                               !.status = "in-progress",
                               !.prefetchedImageUrl = null,
                               !.loading = FALSE]
                       ELSE duel
       ELSE /\ duel' = IF Live(t)
                       THEN [duel EXCEPT !.errorMessage = "Couldn't start a match",
                                         !.loading = FALSE]
                       ELSE duel
            /\ UNCHANGED sessions
    /\ UNCHANGED <<screen, mounted, inst, appState, now, ticks, store, mem,
                   prefetchId, skipPersist, summaryTimer, exited, offline, runLength, menu, lost, handed>>

\* AiDuel's handleAppStateChange: on background / inactive the snapshot of
\* lastStateRef is written as it is
DuelAppStateChange(next) ==
    /\ screen = "AiDuel"
    /\ next # appState
    /\ appState' = next
    /\ IF mounted /\ next = "background"
       THEN /\ CanIssue(1)
            /\ tasks' = tasks \cup
                  {Task(inst, "setItem", DuelKey, "", 0,
                        StringifyDuel(LastDuel(duel), now), NoEnv)}
       ELSE UNCHANGED tasks
    /\ UNCHANGED <<screen, mounted, inst, now, ticks, store, mem, duel,
                   prefetchId, skipPersist, summaryTimer, sessions, exited, offline, runLength, menu, lost, handed>>

\* The cleanup of the hydrate effect: persistAiDuelState()
DuelCleanup(ts) ==
    /\ tasks' = ts \cup {persistAiDuelState(inst, duel)}
    /\ mounted' = FALSE
    /\ duel' = NoDuel

\* AiDuel is removed from the navigation stack by the back button
DuelTeardown ==
    /\ screen = "AiDuel" /\ mounted
    /\ CanIssue(1)
    /\ DuelCleanup(tasks)
    /\ exited' = FALSE /\ offline' = FALSE /\ UNCHANGED <<runLength, menu, lost, handed>>
    /\ UNCHANGED <<screen, inst, appState, now, ticks, store, mem,
                   prefetchId, skipPersist, summaryTimer, sessions>>

\* handleReturnToMenu: clearPersistedAiDuelState() is not awaited, the
\* navigation to MainMenu unmounts the screen, which runs the cleanup
handleReturnToMenu ==
    /\ screen = "AiDuel" /\ mounted /\ appState = "active"
    /\ CanIssue(2)
    /\ DuelCleanup(tasks \cup {clearPersistedAiDuelState(inst, "")})
    /\ exited' = TRUE /\ offline' = FALSE /\ UNCHANGED <<runLength, menu, lost, handed>>
    /\ UNCHANGED <<screen, inst, appState, now, ticks, store, mem,
                   prefetchId, skipPersist, summaryTimer, sessions>>

\* handleRematch: clearPersistedAiDuelState() not awaited, then bootstrap()
handleRematch ==
    /\ screen = "AiDuel" /\ mounted /\ appState = "active"
    /\ ~duel.loading
    /\ CanIssue(2)
    /\ bootstrap(duel, tasks \cup {clearPersistedAiDuelState(inst, "")})
    /\ UNCHANGED <<screen, mounted, inst, appState, now, ticks, store, mem,
                   prefetchId, skipPersist, summaryTimer, sessions, exited, offline, runLength, menu, lost, handed>>

\* const canSubmitGuess = !loading && !submitting && status === 'in-progress' && currentRound
canSubmitGuess(d) ==
    ~d.loading /\ ~d.submitting /\ d.status = "in-progress" /\ d.currentRound # null

\* onChangeText of AiDuel's input
DuelTypeGuess(g) ==
    /\ screen = "AiDuel" /\ mounted /\ appState = "active"
    /\ g # duel.guess
    /\ duel' = [duel EXCEPT !.guess = g]
    /\ UNCHANGED <<screen, mounted, inst, appState, now, ticks, store, tasks, mem,
                   prefetchId, skipPersist, summaryTimer, sessions, exited,
                   offline, runLength, menu, lost, handed>>

\* handleSubmitGuess up to `await submitAiGuess(matchId, roundIndex, guess)';
\* the task carries the round index (tok) and the match id (val) of the call
handleSubmitGuess ==
    /\ screen = "AiDuel" /\ mounted /\ appState = "active"
    /\ canSubmitGuess(duel)
    /\ IF duel.matchId \in {null, Some("")}
       THEN /\ duel' = [duel EXCEPT !.errorMessage = "Match not ready yet"]
            /\ UNCHANGED tasks
       ELSE IF duel.guess = ""
       THEN /\ duel' = [duel EXCEPT !.errorMessage = "Enter a country"]
            /\ UNCHANGED tasks
       ELSE /\ CanIssue(1)
            /\ duel' = [duel EXCEPT !.submitting = TRUE, !.errorMessage = ""]
            /\ tasks' = tasks \cup
                  {Task(inst, "duelGuess", "", "", duel.currentRound[1].roundIndex,
                        duel.matchId, NoEnv)}
    /\ UNCHANGED <<screen, mounted, inst, appState, now, ticks, store, mem,
                   prefetchId, skipPersist, summaryTimer, sessions, exited,
                   offline, runLength, menu, lost, handed>>

\* What submitAiGuess can answer: a result (the player was right or wrong), or
\* an error with one of the codes the handler tells apart (no payload)
GuessOutcomes ==
    {"right", "wrong", "round_out_of_sync", "match_completed",
     "missing_app_check_token", "error"}

\* The set* calls of handleSubmitGuess after its await, try and catch
AfterGuess(d, t, o) ==
    CASE o \in {"right", "wrong"} ->
           [d EXCEPT
              !.latestResult = Some([correct |-> o = "right"]),
              !.scores = [player |-> IF o = "right" THEN t.tok + 1 ELSE t.tok,
                          ai |-> t.tok + 1],
              !.status = IF t.tok + 1 >= DUEL_ROUNDS THEN "completed" ELSE "in-progress",
              !.history = [i \in 1..(t.tok + 1) |-> i - 1],
              !.queuedRound = IF t.tok + 1 >= DUEL_ROUNDS THEN null
                              ELSE Some(DuelRound(t.tok + 1)),
              !.guess = ""]
      [] o = "round_out_of_sync" ->
           [d EXCEPT !.queuedRound = null, !.latestResult = null, !.guess = "",
                     !.errorMessage = "The match messed up and got behind"]
      [] o = "match_completed" ->
           [d EXCEPT !.status = "completed", !.latestResult = null,
                     !.queuedRound = null,
                     !.errorMessage = "This match already wrapped up"]
      [] o = "missing_app_check_token" ->
           [d EXCEPT !.errorMessage = "App Check verification failed"]
      [] OTHER ->
           [d EXCEPT !.errorMessage = "Something went wrong submitting your guess"]

\* handleSubmitGuess after `await submitAiGuess()', with its finally block
DuelGuessDone(t, o) ==
    /\ t \in tasks /\ t.kind = "duelGuess"
    /\ o \in GuessOutcomes
    /\ tasks' = tasks \ {t}
    /\ duel' = IF Live(t) THEN [AfterGuess(duel, t, o) EXCEPT !.submitting = FALSE]
               ELSE duel
    /\ UNCHANGED <<screen, mounted, inst, appState, now, ticks, store, mem,
                   prefetchId, skipPersist, summaryTimer, sessions, exited,
                   offline, runLength, menu, lost, handed>>

\* handleNextRound
handleNextRound ==
    /\ screen = "AiDuel" /\ mounted /\ appState = "active"
    /\ duel.queuedRound # null
    /\ duel' = [duel EXCEPT !.currentRound = duel.queuedRound, !.queuedRound = null,
                            !.latestResult = null, !.guess = "", !.errorMessage = ""]
    /\ UNCHANGED <<screen, mounted, inst, appState, now, ticks, store, tasks, mem,
                   prefetchId, skipPersist, summaryTimer, sessions, exited,
                   offline, runLength, menu, lost, handed>>

---------------------------------------------------------------------------
(* MainMenu *)

MAIN_MENU_STATE_MAX_AGE_MS == 1000 * 60 * 60 * 8

\* Indices of backgroundImages the random choice can return
MenuImages == {1, 2}

\* useState initial values; appActive and isPrefetching are the refs
\* appActiveRef and isPrefetchingRef (isMountedRef is `mounted')
InitMenu ==
    [prefetchedRound |-> null, currentIndex |-> 0, cachedImages |-> <<>>,
     appActive |-> TRUE, isPrefetching |-> FALSE]

\* lastStateRef.current, set by an effect after every render
LastMenu(m) ==
    [prefetchedRound |-> m.prefetchedRound, currentIndex |-> m.currentIndex,
     cachedImages |-> m.cachedImages]

\* JSON.stringify({ ...snapshot, savedAt: Date.now() })
StringifyMenu(s, t) ==
    JObj([prefetchedRound |-> JRound(s.prefetchedRound),
          currentIndex |-> JNum(s.currentIndex),
          cachedImages |-> JArr([i \in DOMAIN s.cachedImages |-> JNum(s.cachedImages[i])]),
          savedAt |-> JNum(t)])

\* !parsed || typeof parsed.savedAt !== 'number'
MenuMalformed(parsed) == ~Truthy(parsed) \/ ~IsNum(Field(parsed, "savedAt"))

\* The set* calls of restorePersistedMainMenuState
HydrateMenu(parsed, m) ==
    [m EXCEPT
       !.prefetchedRound = RoundOf(Field(parsed, "prefetchedRound")),
       !.cachedImages = IF IsArr(Field(parsed, "cachedImages"))
                        THEN ValueOf(Field(parsed, "cachedImages")) ELSE <<>>,
       !.currentIndex = NumOr(Field(parsed, "currentIndex"), 0)]

\* The write of the AppState handler and of the bootstrap cleanup
MenuPersistTask(i, m) ==
    Task(i, "setItem", MenuKey, "", 0, StringifyMenu(LastMenu(m), now), NoEnv)

\* Mounting MainMenu: bootstrap -> restorePersistedMainMenuState -> getItem
MountMenu ==
    /\ screen = "Menu"
    /\ ~mounted /\ inst < MaxMounts /\ appState = "active"
    /\ CanIssue(1)
    /\ mounted' = TRUE
    /\ inst' = inst + 1
    /\ menu' = InitMenu
    /\ skipPersist' = FALSE
    /\ tasks' = tasks \cup {Task(inst + 1, "getItem", MenuKey, "menuRestore", 0, null, NoEnv)}
    /\ UNCHANGED <<screen, appState, now, ticks, store, mem, duel, prefetchId,
                   summaryTimer, sessions, exited, offline, runLength, lost, handed>>

\* What follows restorePersistedMainMenuState when it returns `restored':
\* bootstrap goes on to loadCachedImages, the 'active' handler is done
AfterMenuRestore(t, restored, ts) ==
    IF t.cont \in {"menuRestore", "menuRestoreClear"} /\ Live(t)
    THEN ts \cup {Task(t.inst, "loadImages", "", IF restored THEN "found" ELSE "fresh",
                       0, null, NoEnv)}
    ELSE ts

\* restorePersistedMainMenuState after `await getItem'
MenuRestoreDone(t, ok) ==
    /\ t \in tasks /\ t.kind = "getItem" /\ t.cont \in {"menuRestore", "menuResume"}
    /\ LET raw == store[t.key]
           ts == tasks \ {t}
       IN IF ~ok \/ raw = NoRaw \/ raw = Garbage
          THEN /\ tasks' = AfterMenuRestore(t, FALSE, ts)
               /\ UNCHANGED menu
          ELSE IF MenuMalformed(raw) \/ IsExpired(raw, MAIN_MENU_STATE_MAX_AGE_MS)
          THEN /\ tasks' = ts \cup
                     {Task(t.inst, "removeItem", MenuKey,
                           IF t.cont = "menuRestore" THEN "menuRestoreClear"
                           ELSE "menuResumeClear", 0, null, NoEnv)}
               /\ UNCHANGED menu
          ELSE /\ menu' = IF Live(t) THEN HydrateMenu(raw, menu) ELSE menu
               /\ tasks' = AfterMenuRestore(t, TRUE, ts)
    /\ UNCHANGED <<screen, mounted, inst, appState, now, ticks, store, mem, duel,
                   prefetchId, skipPersist, summaryTimer, sessions, exited,
                   offline, runLength, lost, handed>>

\* clearPersistedMainMenuState awaited by restore completes
MenuRestoreClearDone(t, ok) ==
    /\ t \in tasks /\ t.kind = "removeItem"
    /\ t.cont \in {"menuRestoreClear", "menuResumeClear"}
    /\ store' = StoreAfter(t, ok)
    /\ tasks' = AfterMenuRestore(t, FALSE, tasks \ {t})
    /\ UNCHANGED <<screen, mounted, inst, appState, now, ticks, mem, duel, menu,
                   prefetchId, skipPersist, summaryTimer, sessions, exited,
                   offline, runLength, lost, handed>>

\* prefetchInitialRound up to its await
prefetchInitialRound(m, ts) ==
    IF m.isPrefetching \/ m.prefetchedRound # null
    THEN menu' = m /\ tasks' = ts
    ELSE /\ menu' = [m EXCEPT !.isPrefetching = TRUE]
         /\ tasks' = ts \cup {Task(inst, "menuPrefetch", "", "", 0, null, NoEnv)}

\* bootstrap after `await loadCachedImages()': the file's list and a random
\* background index not in it; a screen that restored nothing clears the key next
LoadImagesDone(t, cached, idx) ==
    /\ t \in tasks /\ t.kind = "loadImages"
    /\ cached \in {<<>>, <<1>>}
    /\ idx \in MenuImages /\ \A i \in DOMAIN cached : cached[i] # idx
    /\ IF Live(t)
       THEN /\ menu' = [menu EXCEPT !.cachedImages = Append(cached, idx),
                                    !.currentIndex = idx]
            /\ tasks' = IF t.cont = "fresh"
                        THEN (tasks \ {t}) \cup
                                {Task(t.inst, "removeItem", MenuKey, "menuBootClear", 0, null, NoEnv)}
                        ELSE tasks \ {t}
       ELSE tasks' = tasks \ {t} /\ UNCHANGED menu
    /\ UNCHANGED <<screen, mounted, inst, appState, now, ticks, store, mem, duel,
                   prefetchId, skipPersist, summaryTimer, sessions, exited,
                   offline, runLength, lost, handed>>

\* bootstrap after `await clearPersistedMainMenuState()'
MenuBootClearDone(t, ok) ==
    /\ t \in tasks /\ t.kind = "removeItem" /\ t.cont = "menuBootClear"
    /\ store' = StoreAfter(t, ok)
    /\ IF Live(t)
       THEN prefetchInitialRound(menu, tasks \ {t})
       ELSE tasks' = tasks \ {t} /\ UNCHANGED menu
    /\ UNCHANGED <<screen, mounted, inst, appState, now, ticks, mem, duel,
                   prefetchId, skipPersist, summaryTimer, sessions, exited,
                   offline, runLength, lost, handed>>

\* prefetchInitialRound after `await getImageWithCountry()'
MenuPrefetchDone(t, o) ==
    /\ t \in tasks /\ t.kind = "menuPrefetch"
    /\ o \in FetchOutcomes
    /\ tasks' = tasks \ {t}
    /\ IF Live(t)
       THEN menu' = [menu EXCEPT
                       !.prefetchedRound = IF FetchFailed(o) THEN null
                                           ELSE Some(FetchedRound("menu", o)),
                       !.isPrefetching = FALSE]
       ELSE UNCHANGED menu
    /\ UNCHANGED <<screen, mounted, inst, appState, now, ticks, store, mem, duel,
                   prefetchId, skipPersist, summaryTimer, sessions, exited,
                   offline, runLength, lost, handed>>

\* handleStartGame: the prefetched round goes to the game screen
handleStartGame ==
    /\ screen = "Menu" /\ mounted /\ appState = "active"
    /\ CanIssue(1)
    /\ prefetchInitialRound([menu EXCEPT !.prefetchedRound = null], tasks)
    \* navigation.navigate('Game', { prefetchedRound })
    /\ handed' = IF menu.prefetchedRound = null THEN handed
                 ELSE handed \cup {menu.prefetchedRound[1].image.url}
    /\ UNCHANGED <<screen, mounted, inst, appState, now, ticks, store, mem, duel,
                   prefetchId, skipPersist, summaryTimer, sessions, exited,
                   offline, runLength, lost>>

\* handleAppStateChange of MainMenu; 'inactive' is handled as 'background'
MenuAppStateChange(next) ==
    /\ screen = "Menu"
    /\ next # appState
    /\ appState' = next
    /\ IF ~mounted
       THEN UNCHANGED <<menu, tasks>>
       ELSE IF next = "background"
       THEN /\ menu' = [menu EXCEPT !.appActive = FALSE]
            /\ IF ~skipPersist
               THEN /\ CanIssue(1)
                    /\ tasks' = tasks \cup {MenuPersistTask(inst, menu)}
               ELSE UNCHANGED tasks
       ELSE /\ menu' = [menu EXCEPT !.appActive = TRUE]
            /\ CanIssue(1)
            /\ tasks' = tasks \cup
                  {Task(inst, "getItem", MenuKey, "menuResume", 0, null, NoEnv)}
    /\ UNCHANGED <<screen, mounted, inst, now, ticks, store, mem, duel,
                   prefetchId, skipPersist, summaryTimer, sessions, exited,
                   offline, runLength, lost, handed>>

\* The cleanup of the AppState effect, which runs first: appActiveRef and
\* isMountedRef are cleared
MenuAppStateCleanup(m) == [m EXCEPT !.appActive = FALSE]

\* MainMenu is unmounted: the effect cleanups run in the order of the
\* effects, the AppState effect's before the bootstrap effect's
MenuTeardown ==
    /\ screen = "Menu" /\ mounted
    /\ CanIssue(1)
    /\ LET m == MenuAppStateCleanup(menu)
       IN IF ~skipPersist /\ m.appActive
          THEN tasks' = tasks \cup {MenuPersistTask(inst, m)}
          ELSE UNCHANGED tasks
    /\ skipPersist' = FALSE
    /\ mounted' = FALSE
    /\ menu' = NoMenu
    /\ UNCHANGED <<screen, inst, appState, now, ticks, store, mem, duel,
                   prefetchId, summaryTimer, sessions, exited, offline, runLength, lost, handed>>

---------------------------------------------------------------------------
(* Initial states *)

\* Date.now() when the model starts; snapshots of earlier process
\* generations were saved between 0 and Now0
Now0 == GAME_STATE_MAX_AGE_MS + 1
TickSizes == {1, GAME_STATE_MAX_AGE_MS}

OldRound == Round("old", TRUE)
OldNext == Round("oldnext", TRUE)

\* States an earlier process generation of the game can have been in when
\* it wrote its snapshot: in the last round after two wrong guesses, ...
LastRoundMem ==
    [ShowRound(InitMem(Some(OldNext)), OldRound) EXCEPT
       !.guessCount = 2, !.incorrectGuesses = <<"Spain", "Spain">>,
       !.feedback = "NotQuite", !.currentScore = 3, !.highScore = 3,
       !.roundNumber = 10, !.correctAnswers = 1, !.completedRounds = 9,
       !.gameSessionId = Some("s0")]

\* ... after the second round, both guessed at once, ...
RoundOverMem ==
    [ShowRound(InitMem(Some(OldNext)), OldRound) EXCEPT
       !.guessCount = 1, !.feedback = "Correct", !.gameOver = TRUE,
       !.currentScore = 6, !.highScore = 6,
       !.roundNumber = 3, !.correctAnswers = 2, !.completedRounds = 2,
       !.gameSessionId = Some("s0")]

\* ... and at the summary of a session with two rounds won
SummaryMem ==
    [ShowRound(InitMem(Some(OldNext)), OldRound) EXCEPT
       !.guessCount = 3, !.incorrectGuesses = <<"Spain", "Spain", "Spain">>,
       !.feedback = "GameOver", !.gameOver = TRUE,
       !.currentScore = 5, !.highScore = 5,
       !.roundNumber = 10, !.correctAnswers = 2, !.completedRounds = 10,
       !.showGameSummary = TRUE, !.gameSessionId = Some("s0")]

\* ... and in the first round of a continued session with no points, two
\* wrong guesses made
ContinuedMem ==
    [ShowRound(InitMem(Some(OldNext)), OldRound) EXCEPT
       !.guessCount = 2, !.incorrectGuesses = <<"Spain", "Spain">>,
       !.feedback = "NotQuite", !.currentScore = 0, !.highScore = 5,
       !.isContinued = TRUE, !.gameSessionId = Some("s0")]

SnapshotOf(m, t) == Stringify(LastState(m), t)

\* The high score a process start can find in the store
InitHighs == { NoRaw, JNum(4) }

\* A process start: nothing mounted, nothing in flight, and under the
\* screen's keys what earlier process generations left there; n is the
\* number of request ids a screen instance may take
InitRun(screens, raws, highs, n) ==
    /\ screen \in screens
    /\ mounted = FALSE
    /\ inst = 0
    /\ appState = "active"
    /\ now = Now0
    /\ ticks = 0
    /\ \E raw \in raws, high \in highs :
          store = [k \in Keys |-> IF k = KeyOf(screen) THEN raw
                                  ELSE IF k = HighKeyOf(screen) THEN high
                                  ELSE NoRaw]
    /\ tasks = {}
    /\ mem = InitMem(null)
    /\ duel = NoDuel
    /\ prefetchId = 0
    /\ skipPersist = FALSE
    /\ summaryTimer = FALSE
    /\ sessions = 0
    /\ exited = FALSE
    /\ offline = FALSE
    /\ runLength = n
    /\ menu = NoMenu
    /\ lost = FALSE
    /\ handed = {}

InitWith(screens, raws, highs) == InitRun(screens, raws, highs, MaxPrefetch)

---------------------------------------------------------------------------
(* The prefetch slot: round starts, prefetches and their completion in any *)
(* order, on a screen that starts fresh or restores a finished round.      *)
(* Storage and the session start are reliable here, the player guesses     *)
(* right, and the Round Source may answer with a round or with none.       *)

InitPrefetch == InitWith(GameScreens, {NoRaw, SnapshotOf(RoundOverMem, Now0)}, {NoRaw})

NextPrefetch ==
    \/ \E route \in {null, Some(Round(RouteUrl, TRUE))} : Mount(route)
    \/ Teardown
    \/ \E t \in tasks : StorageDone(t, TRUE)
    \/ \E t \in tasks, o \in {"round", "absent"} : FetchDone(t, o)
    \/ \E t \in tasks, o \in {"round", "absent"} : PrefetchDone(t, o)
    \/ \E t \in tasks : RestoreDone(t, TRUE)
    \/ \E t \in tasks : BootClearDone(t, TRUE)
    \/ \E t \in tasks : SessionDone(t, TRUE)
    \/ \E t \in tasks : StoreIdDone(t)
    \/ \E t \in tasks : LoadHighDone(t, TRUE)
    \/ TypeGuess("France")
    \/ submitGuess
    \/ NextGame

SpecPrefetch == InitPrefetch /\ [][NextPrefetch]_vars

\* The Next Game button is rendered: the advance can be requested (again)
AdvanceOffered(m) == m.gameOver /\ m.completedRounds < TOTAL_ROUNDS /\ ~m.showGameSummary

\* The fetch t of startGame returns to the mounted instance without a round
FetchReturnsNothing(t) ==
    /\ t.kind = "fetch" /\ Live(t)
    /\ t \in tasks /\ t \notin tasks'
    /\ mem'.imageUrl = mem.imageUrl

\* C20: when the round fetch of an advance between rounds fails, the round that
\* was on screen when the advance was requested is still in memory, still
\* marked over, and the advance is still offered to the user.
C20_FailedFetchKeepsRound ==
    [][\A t \in tasks :
          (/\ FetchReturnsNothing(t)
           /\ t.env.completedRounds > 0 /\ t.env.completedRounds < TOTAL_ROUNDS)
             => /\ mem'.imageUrl # null
                /\ mem'.gameOver
                /\ AdvanceOffered(mem')]_vars

\* A step in which the prefetch request t resolves and its result lands in
\* the nextRound slot
PrefetchWrites(t) ==
    /\ t \in tasks /\ t \notin tasks' /\ t.kind = "prefetch"
    /\ mem'.nextRound # mem.nextRound
    /\ mem'.nextRound # null
    /\ mem'.nextRound[1].image.url = PrefUrl(t.inst, t.tok)

\* C1: a prefetch response is written into the nextRound slot only if the
\* token it was issued with equals prefetchIdRef.current when it resolves (and
\* the screen that issued it is still mounted); of two overlapping prefetches
\* of a screen the one issued first is never written, whichever resolves first.
C1_TokenGating ==
    [][\A t \in tasks :
          PrefetchWrites(t) =>
             /\ t.tok = prefetchId
             /\ mounted /\ t.inst = inst
             /\ \A u \in tasks :
                   u.kind = "prefetch" /\ u.inst = t.inst => u.tok <= t.tok]_vars

\* Two prefetches of the mounted screen overlapped, the later one has filled
\* the slot and the earlier one is still to resolve
C1_Witness ==
    /\ mounted
    /\ mem.nextRound # null
    /\ mem.nextRound[1].image.url = PrefUrl(inst, prefetchId)
    /\ \E t \in tasks : t.kind = "prefetch" /\ t.inst = inst /\ t.tok < prefetchId

\* A step in which startGame takes the round out of the nextRound slot and
\* shows it
SlotConsumed ==
    /\ mounted /\ mounted' /\ inst' = inst
    /\ mem.nextRound # null /\ mem'.nextRound = null
    /\ mem'.imageUrl = Some(mem.nextRound[1].image.url)
    /\ \A t \in tasks \ tasks' : t.cont # "restore"

\* C2: the round startGame takes out of the nextRound slot is the result of
\* the most recently issued prefetch request of the screen, never the result
\* of an older request or a value no request of the screen produced.
C2_ConsumesLatest ==
    [][SlotConsumed =>
          mem.nextRound[1].image.url = PrefUrl(inst, prefetchId)]_vars

---------------------------------------------------------------------------
(* Leaving a screen: background events, the return to the main menu and    *)
(* the teardown, with the storage calls they issue completing in any       *)
(* order.  The screen starts fresh or restores a session at its summary    *)
(* (AiDuel: a match in its first round); storage is reliable, the score    *)
(* submission may fail, and nobody guesses.                                *)

\* The snapshot an earlier AiDuel instance wrote in the first round of a match
DuelMatchMem ==
    [InitDuel(null) EXCEPT !.loading = FALSE, !.matchId = Some("m0"),
                           !.currentRound = Some(DuelRound(0)), !.totalRounds = 3]

InitExit ==
    \/ InitWith(GameScreens, {NoRaw, SnapshotOf(SummaryMem, Now0)}, {NoRaw})
    \/ InitWith({"AiDuel"}, {NoRaw, StringifyDuel(LastDuel(DuelMatchMem), Now0)}, {NoRaw})

NextExit ==
    \/ Mount(null)
    \/ Teardown
    \/ \E next \in {"background", "active"} : handleAppStateChange(next)
    \/ \E t \in tasks : StorageDone(t, TRUE)
    \/ \E t \in tasks : RestoreDone(t, TRUE)
    \/ \E t \in tasks : BootClearDone(t, TRUE)
    \/ \E t \in tasks : SessionDone(t, TRUE)
    \/ \E t \in tasks : StoreIdDone(t)
    \/ \E t \in tasks : LoadHighDone(t, TRUE)
    \/ \E t \in tasks : FetchDone(t, "round")
    \/ \E t \in tasks : PrefetchDone(t, "round")
    \/ ToggleLeaderboard
    \/ handleReturnToMainMenu
    \/ \E t \in tasks, ok \in BOOLEAN : ExitSubmitDone(t, ok)
    \/ \E t \in tasks : ExitClearDone(t, TRUE)
    \/ \E route \in {null, Some(RouteUrl)} : MountDuel(route)
    \/ DuelTeardown
    \/ \E next \in {"background", "active"} : DuelAppStateChange(next)
    \/ \E t \in tasks : DuelRestoreDone(t, TRUE)
    \/ \E t \in tasks : DuelBootClearDone(t, TRUE)
    \/ \E t \in tasks, ok \in BOOLEAN : MatchDone(t, ok)
    \/ handleReturnToMenu
    \/ handleRematch

SpecExit == InitExit /\ [][NextExit]_vars

\* A step issues a write of the screen's snapshot
SnapshotWriteIssued ==
    \E t \in tasks' \ tasks : t.kind = "setItem" /\ t.key = KeyOf(screen)

\* C3: once handleReturnToMainMenu has set skipPersistRef, no background or
\* inactive event and no teardown issues AsyncStorage.setItem on the screen's
\* state key, whatever the score submission is doing meanwhile.
C3_NoWriteWhileSuppressed ==
    [][skipPersist => ~SnapshotWriteIssued]_vars

\* The app went to the background while the flag was set and the exit was
\* still waiting for its score submission
C3_Witness ==
    /\ skipPersist /\ mounted /\ appState = "background"
    /\ \E t \in tasks : t.kind = "submit" /\ t.cont = "exit"

\* C4: after a return to the main menu, once the teardown has run and every
\* storage call has completed, the store holds nothing under the screen's key.
C4_NoSnapshotAfterExit ==
    exited /\ ~mounted /\ tasks = {} => store[KeyOf(screen)] = NoRaw

\* The core payload of a stored snapshot: imageUrl / panoramaUrl for the game
\* screens, matchId or currentRound for AiDuel
HasPayload(s, raw) ==
    IF s = "AiDuel"
    THEN Truthy(Field(raw, "matchId")) \/ Truthy(Field(raw, "currentRound"))
    ELSE Truthy(Field(raw, "imageUrl"))

\* C7: no snapshot key ever holds a record without a core payload: whatever a
\* background, teardown or persist path writes has its active-round payload.
C7_StoreHasPayload ==
    store[KeyOf(screen)] # NoRaw => HasPayload(screen, store[KeyOf(screen)])

\* A background (or inactive) event reaches the handler of the mounted game
\* screen, or the screen is torn down
FlagChecked ==
    /\ screen \in GameScreens /\ mounted
    /\ \/ appState # "background" /\ appState' = "background"
       \/ ~mounted'

ExitPending == \E t \in tasks : Live(t) /\ t.cont \in {"exit", "exitClear"}

\* C16: handleReturnToMainMenu sets the suppression flag before its first
\* await and so before it navigates: while it waits the flag is true, the
\* teardown its navigation causes finds the flag true, and so does every
\* background event in between (none of them issues a snapshot write).
C16_FlagSetBeforeNavigation ==
    [][/\ ExitPending' => skipPersist'
       /\ (screen \in GameScreens /\ ~exited /\ exited') => skipPersist
       /\ (ExitPending /\ FlagChecked) => skipPersist /\ ~SnapshotWriteIssued]_vars

\* The app went to the background while handleReturnToMainMenu waits for its
\* delete; the flag is set
C16_Witness ==
    /\ skipPersist /\ mounted /\ appState = "background"
    /\ \E t \in tasks : Live(t) /\ t.cont = "exitClear"

---------------------------------------------------------------------------
(* Restoring: a process start finds under the screen's key what an earlier *)
(* generation left there (a snapshot in its last round, fresh, at exactly  *)
(* the maximum age or older, or a value no persist wrote), the clock moves,*)
(* the player guesses wrong, the app is backgrounded, killed, unmounted    *)
(* and started again.  Every storage call succeeds in this specification,  *)
(* time passes between two starts of the screen, and the behaviours end    *)
(* where bootstrap, after a restore that found nothing, clears the key to  *)
(* start a new session.                                                    *)

\* The snapshot an earlier AiDuel instance wrote before its match had started,
\* from nothing but the round handed over by the main menu
DuelPrefetchedMem == [InitDuel(Some(RouteUrl)) EXCEPT !.loading = FALSE]

RestoreRaws ==
    { Garbage, JNull,
      JObj([SnapshotOf(LastRoundMem, Now0)[2] EXCEPT !.savedAt = JUndef]),
      JObj([SnapshotOf(LastRoundMem, Now0)[2] EXCEPT !.imageUrl = JNull]),
      JObj([SnapshotOf(LastRoundMem, Now0)[2] EXCEPT !.imageUrl = JNum(7)]),
      SnapshotOf(LastRoundMem, Now0),
      SnapshotOf(LastRoundMem, 1),
      SnapshotOf(LastRoundMem, 0) }

DuelRestoreRaws ==
    { Garbage,
      StringifyDuel(LastDuel(DuelPrefetchedMem), Now0),
      StringifyDuel(LastDuel(DuelMatchMem), 1),
      StringifyDuel(LastDuel(DuelMatchMem), 0) }

InitRestore ==
    \/ InitWith(GameScreens, RestoreRaws, {NoRaw})
    \/ InitWith({"AiDuel"}, DuelRestoreRaws, {NoRaw})

NextRestore ==
    \/ Mount(null)
    \/ Teardown
    \/ \E d \in TickSizes : ~mounted /\ tasks = {} /\ Tick(d)
    \/ \E next \in {"background", "active"} : handleAppStateChange(next)
    \/ \E t \in tasks : StorageDone(t, TRUE)
    \/ \E t \in tasks : RestoreDone(t, TRUE)
    \/ \E t \in tasks : RestoreClearDone(t, TRUE)
    \/ \E t \in tasks : LoadHighDone(t, TRUE)
    \/ \E t \in tasks : PrefetchDone(t, "round")
    \/ TypeGuess("Spain")
    \/ submitGuess
    \/ SummaryTimerFires
    \/ MountDuel(null)
    \/ \E t \in tasks : DuelRestoreDone(t, TRUE)
    \/ \E t \in tasks : DuelRestoreClearDone(t, TRUE)

SpecRestore == InitRestore /\ [][NextRestore]_vars

\* A step in which the getItem of a restore operation completes
RestoreReads(t) ==
    /\ t \in tasks /\ t \notin tasks'
    /\ t.kind = "getItem" /\ t.cont \in {"restore", "duelRestore"}

\* A step in which the delete a restore operation awaits completes, so that
\* restore returns
RestoreDeleteReturns(t) ==
    /\ t \in tasks /\ t \notin tasks'
    /\ t.kind = "removeItem" /\ t.cont \in {"restoreClear", "duelRestoreClear"}

\* A step issues the delete a restore operation awaits
RestoreDeleteIssued(key) ==
    \E u \in tasks' \ tasks :
       /\ u.kind = "removeItem" /\ u.key = key
       /\ u.cont \in {"restoreClear", "duelRestoreClear"}

\* A stored record with a numeric savedAt and a core payload
IsSnapshot(raw) ==
    raw # NoRaw /\ IsObj(raw) /\ IsNum(Field(raw, "savedAt")) /\ HasPayload(screen, raw)

Age(raw) == now - Field(raw, "savedAt")[2]

\* No in-memory field is hydrated (AiDuel's bootstrap may set loading again)
NoHydration ==
    /\ mem' = mem
    /\ prefetchId' = prefetchId
    /\ duel' = duel \/ duel' = [duel EXCEPT !.loading = TRUE]

\* C5: a restore that reads a snapshot older than the max age (8 hours)
\* hydrates nothing and awaits the delete of the key, and when it returns
\* (not-found: bootstrap goes on to a new session) the key is absent; a
\* snapshot whose age is exactly the max age is restored, not deleted.
C5_ExpiredNotRestored ==
    [][/\ \A t \in tasks :
             RestoreReads(t) /\ IsSnapshot(store[t.key])
                /\ Age(store[t.key]) > GAME_STATE_MAX_AGE_MS
             => NoHydration /\ RestoreDeleteIssued(t.key)
       /\ \A t \in tasks :
             RestoreDeleteReturns(t) => store'[t.key] = NoRaw /\ NoHydration
       /\ \A t \in tasks :
             RestoreReads(t) /\ Live(t) /\ IsSnapshot(store[t.key])
                /\ Age(store[t.key]) = GAME_STATE_MAX_AGE_MS
             => /\ ~RestoreDeleteIssued(t.key)
                /\ screen \in GameScreens =>
                      /\ prefetchId' = prefetchId + 1
                      /\ mem'.imageUrl = StrOrNull(Field(store[t.key], "imageUrl"))
                /\ screen = "AiDuel" =>
                      duel'.matchId = StrOrNull(Field(store[t.key], "matchId"))]_vars

\* A restore has read a snapshot older than the max age, has hydrated nothing
\* and waits for its delete
C5_Witness ==
    /\ mounted
    /\ screen \in GameScreens => mem = InitMem(null)
    /\ \E t \in tasks :
          /\ t.kind = "removeItem" /\ t.cont \in {"restoreClear", "duelRestoreClear"}
          /\ t.inst = inst
          /\ IsSnapshot(store[t.key])
          /\ Age(store[t.key]) > GAME_STATE_MAX_AGE_MS

\* C6: what a game screen writes from a state with an active round decodes to
\* the persisted fields of that state, and a restore that reads such a
\* snapshot no older than the max age reports found (bootstrap prefetches)
\* and leaves every persisted field with the value the snapshot was written
\* from: the in-memory state encodes to the stored text again.
C6_RoundTrip ==
    [][/\ \A t \in tasks' \ tasks :
             /\ screen \in GameScreens
             /\ t.kind = "setItem" /\ t.key = KeyOf(screen)
             /\ mem.imageUrl \notin {null, Some("")}
             => /\ ~Malformed(t.val)
                /\ Field(t.val, "savedAt") = JNum(now)
                /\ LastState(Hydrate(screen, t.val, InitMem(null))) = LastState(mem)
       /\ \A t \in tasks :
             /\ screen \in GameScreens
             /\ RestoreReads(t) /\ Live(t)
             /\ IsSnapshot(store[t.key]) /\ IsStr(Field(store[t.key], "imageUrl"))
             /\ Age(store[t.key]) <= GAME_STATE_MAX_AGE_MS
             => /\ prefetchId' = prefetchId + 1
                /\ Stringify(LastState(mem'), Field(store[t.key], "savedAt")[2])
                      = store[t.key]]_vars

\* The second instance of the screen shows the summary it restored from the
\* snapshot the first one wrote a whole max age ago
C6_Witness ==
    /\ screen \in GameScreens /\ mounted /\ inst = 2 /\ prefetchId = 1
    /\ IsSnapshot(store[KeyOf(screen)])
    /\ Age(store[KeyOf(screen)]) = GAME_STATE_MAX_AGE_MS
    /\ mem.showGameSummary
    /\ LastState(mem) = LastState(Hydrate(screen, store[KeyOf(screen)], mem))

\* C14: a restore that reads a snapshot no older than the max age and
\* reports found (the mounted screen is hydrated from it) deletes the
\* screen's key: the step issues the removeItem.
C14_RestoredSnapshotDeleted ==
    [][\A t \in tasks :
          RestoreReads(t) /\ Live(t) /\ IsSnapshot(store[t.key])
             /\ Age(store[t.key]) <= GAME_STATE_MAX_AGE_MS
          => \E u \in tasks' \ tasks : u.kind = "removeItem" /\ u.key = t.key]_vars

\* The app leaves the foreground under a mounted game screen whose suppression
\* flag is unset and whose memory holds a round
BackgroundedWithRound ==
    /\ screen \in GameScreens /\ mounted
    /\ appState # "background" /\ appState' = "background"
    /\ ~skipPersist
    /\ mem.imageUrl # null /\ mem.imageUrl # Some("")

\* C19: when the app goes to the background with the suppression flag unset
\* and a round in memory, the handler issues a write of the screen's key whose
\* value is the serialisation of the in-memory state with savedAt equal to the
\* time of the event, and when a write of a snapshot completes the store holds
\* exactly the value written.
C19_BackgroundSnapshotStored ==
    [][/\ BackgroundedWithRound =>
            \E u \in tasks' :
                /\ u.kind = "setItem" /\ u.key = KeyOf(screen) /\ u.inst = inst
                /\ Field(u.val, "savedAt") = JNum(now)
                /\ Hydrate(screen, u.val, InitMem(null)) = Hydrate(screen, SnapshotOf(mem, now), InitMem(null))
                /\ Field(u.val, "imageUrl") = JStr(mem.imageUrl[1])
                /\ Field(u.val, "guessCount") = JNum(mem.guessCount)
                /\ Field(u.val, "completedRounds") = JNum(mem.completedRounds)
                /\ Field(u.val, "currentScore") = JNum(mem.currentScore)
                /\ Field(u.val, "gameOver") = JBool(mem.gameOver)
       /\ \A t \in tasks \ tasks' :
             (t.kind = "setItem" /\ t.cont = "") => store'[t.key] = t.val]_vars

\* A snapshot written at a backgrounding later than the start is in the store
C19_Witness ==
    /\ screen \in GameScreens /\ mounted /\ appState = "background"
    /\ now > Now0 /\ mem.imageUrl # null
    /\ store[KeyOf(screen)] = SnapshotOf(mem, now)

\* A stored value that is not a snapshot: unparseable, not an object, without
\* a numeric savedAt, without core payload or with one of the wrong type
MalformedRaw(s, raw) ==
    \/ raw = Garbage
    \/ ~IsObj(raw)
    \/ ~IsNum(Field(raw, "savedAt"))
    \/ ~HasPayload(s, raw)
    \/ s \in GameScreens /\ ~IsStr(Field(raw, "imageUrl"))

\* C8: a restore that reads a malformed value (unparseable, wrong shape, no
\* core payload, no numeric savedAt) hydrates nothing and itself deletes the
\* stored value before it returns not-found.
C8_MalformedDeletedByRestore ==
    [][\A t \in tasks :
          RestoreReads(t) /\ store[t.key] # NoRaw /\ MalformedRaw(screen, store[t.key])
          => NoHydration /\ RestoreDeleteIssued(t.key)]_vars

\* The cases in which a restore operation returns false: nothing stored,
\* JSON.parse throws, the shape test fails, the snapshot is expired, or (AiDuel)
\* Boolean(parsed.matchId || parsed.currentRound) is false
RestoreReturnsFalse(s, raw) ==
    \/ raw \in {NoRaw, Garbage}
    \/ IF s = "AiDuel"
       THEN \/ DuelMalformed(raw)
            \/ IsExpired(raw, STATE_MAX_AGE_MS)
            \/ ~DuelRestored(raw)
       ELSE \/ Malformed(raw)
            \/ IsExpired(raw, GAME_STATE_MAX_AGE_MS)

\* C30: a restore operation of the mounted screen that reports not-found
\* (nothing stored, malformed, expired) leaves every in-memory field as it
\* was, both in the step that reads the stored value and in the step in which
\* the delete it awaits returns: no field is hydrated from the stored value.
C30_NotFoundHydratesNothing ==
    [][\A t \in tasks :
          /\ Live(t)
          /\ \/ RestoreReads(t) /\ RestoreReturnsFalse(screen, store[t.key])
             \/ RestoreDeleteReturns(t)
          => NoHydration]_vars

\* The mounted screen goes to the background or is torn down
MovedAway == mounted /\ (~mounted' \/ (appState = "active" /\ appState' # "active"))

\* The stored value is a snapshot a restore would accept
Restorable(raw) == IsSnapshot(raw) /\ Age(raw) <= GAME_STATE_MAX_AGE_MS

\* C35: while the store holds a restorable snapshot of the session, a
\* background or teardown event of a game screen whose suppression flag is
\* unset issues no delete of the snapshot key.
C35_SessionDurable ==
    [][(/\ screen \in GameScreens /\ MovedAway /\ ~skipPersist
        /\ Restorable(store[KeyOf(screen)]))
          => \A u \in tasks' \ tasks : ~(u.kind = "removeItem" /\ u.key = KeyOf(screen))]_vars

---------------------------------------------------------------------------
(* Scoring: a fresh session, one continued from a restored summary, or a   *)
(* continued one restored with no points; a stored high score of 4 or      *)
(* none; the player guesses right or wrong in any order and advances.      *)
(* Storage, the session start and the Round Source are reliable here.      *)

InitScore ==
    InitWith(GameScreens,
             {NoRaw, SnapshotOf(SummaryMem, Now0), SnapshotOf(ContinuedMem, Now0)},
             InitHighs)

NextScore ==
    \/ Mount(null)
    \/ \E t \in tasks : StorageDone(t, TRUE)
    \/ \E t \in tasks : RestoreDone(t, TRUE)
    \/ \E t \in tasks : BootClearDone(t, TRUE)
    \/ \E t \in tasks : SessionDone(t, TRUE)
    \/ \E t \in tasks : StoreIdDone(t)
    \/ \E t \in tasks : LoadHighDone(t, TRUE)
    \/ \E t \in tasks : FetchDone(t, "round")
    \/ \E t \in tasks : PrefetchDone(t, "round")
    \/ \E g \in GuessInputs : TypeGuess(g)
    \/ submitGuess
    \/ NextGame
    \/ continueGame

SpecScore == InitScore /\ [][NextScore]_vars

\* The guess submitted by a submitGuess step was correct
GuessedRight == mem'.feedback = "Correct"

\* C9: a correct guess adds exactly 3, 2 or 1 points when it is the 1st, 2nd
\* or 3rd attempt of the round and 0 on any later attempt, by the attempt
\* count at that moment; a guess that leaves the round open changes no
\* points, so what earlier rounds earned stays in the score.
C9_PointsByAttempt ==
    [][submitGuess =>
          /\ GuessedRight =>
                mem'.currentScore - mem.currentScore =
                   (CASE mem.guessCount = 0 -> 3
                      [] mem.guessCount = 1 -> 2
                      [] mem.guessCount = 2 -> 1
                      [] OTHER -> 0)
          /\ ~GuessedRight /\ ~mem'.gameOver =>
                mem'.currentScore = mem.currentScore
          /\ \A n \in 4 .. 6 : PointsEarned(n) = 0]_vars

\* A second round was guessed right at the third attempt after a first one
\* guessed at once
C9_Witness ==
    /\ mounted /\ mem.feedback = "Correct" /\ mem.guessCount = 3
    /\ mem.completedRounds = 2
    /\ mem.currentScore = 4

\* C10: submitGuess changes the high score only when the new cumulative score
\* is strictly above it, and then to exactly the new score; a correct guess
\* whose new score is above the high score does change it, and one whose new
\* score is equal or lower leaves it alone.
C10_HighScoreOnlyWhenExceeded ==
    [][submitGuess =>
          /\ mem'.highScore # mem.highScore =>
                /\ mem'.currentScore > mem.highScore
                /\ mem'.highScore = mem'.currentScore
          /\ GuessedRight /\ mem'.currentScore > mem.highScore =>
                mem'.highScore = mem'.currentScore
          /\ mem'.currentScore <= mem.highScore =>
                mem'.highScore = mem.highScore]_vars

\* Score 5 and stored high score 4, then a first guess that is right: score 8,
\* high score 8, on its way to the store
C10_Witness ==
    /\ mounted /\ mem.feedback = "Correct" /\ mem.guessCount = 1
    /\ mem.currentScore = 8 /\ mem.highScore = 8
    /\ store[HighKeyOf(screen)] = JNum(4)
    /\ \E t \in tasks : t.kind = "setItem" /\ t.key = HighKeyOf(screen) /\ t.val = JNum(8)

\* C26: a wrong guess that brings the attempt count below 3 keeps the round
\* open and is appended to the incorrect-guess history; a wrong guess that
\* brings the count to 3 is appended too and ends the round, the completed
\* rounds growing by exactly 1; a right guess ends the round at once, grows
\* the completed rounds by 1 and appends nothing.
C26_RoundEndsAtThirdMiss ==
    [][submitGuess =>
          /\ (~GuessedRight /\ mem.guessCount + 1 < 3) =>
                /\ ~mem'.gameOver
                /\ mem'.incorrectGuesses = Append(mem.incorrectGuesses, mem.guess)
                /\ mem'.completedRounds = mem.completedRounds
          /\ (~GuessedRight /\ mem.guessCount + 1 = 3) =>
                /\ mem'.gameOver
                /\ mem'.incorrectGuesses = Append(mem.incorrectGuesses, mem.guess)
                /\ mem'.completedRounds = mem.completedRounds + 1
          /\ GuessedRight =>
                /\ mem'.gameOver
                /\ mem'.incorrectGuesses = mem.incorrectGuesses
                /\ mem'.completedRounds = mem.completedRounds + 1
          /\ mem'.guessCount = mem.guessCount + 1 /\ mem'.guessCount <= 3]_vars

\* A first round lost at the third wrong guess
C26_Witness ==
    /\ mounted /\ mem.gameOver /\ mem.feedback = "GameOver"
    /\ mem.guessCount = 3 /\ Len(mem.incorrectGuesses) = 3
    /\ mem.completedRounds = 1

\* The guess submitted by a submitGuess step was wrong and ended the round
RoundFailed == ~GuessedRight /\ mem'.gameOver

\* C27: a failed round leaves the cumulative score unchanged when the
\* continued flag is unset and lowers it by exactly 1 when the flag is set,
\* whatever the score is (there is no floor at zero); it never changes the
\* high score and writes none to the store.
C27_FailedRoundCostsOneWhenContinued ==
    [][(submitGuess /\ RoundFailed) =>
          /\ ~mem.isContinued => mem'.currentScore = mem.currentScore
          /\ mem.isContinued => mem'.currentScore = mem.currentScore - 1
          /\ mem'.highScore = mem.highScore
          /\ tasks' = tasks]_vars

\* Two rounds failed in a continued session that had no points
C27_Witness ==
    /\ mounted /\ mem.isContinued /\ mem.gameOver /\ mem.feedback = "GameOver"
    /\ mem.currentScore = -2

\* C28: 'continue' sets the round number to 1, the completed rounds to 0 and
\* the continued flag, hides the summary and cancels its timer, leaves the
\* cumulative score, the high score and the session id as they are, and
\* starts a round: out of the prefetch slot if it is filled, else by a fetch.
C28_ContinueKeepsScore ==
    [][continueGame =>
          /\ mem'.roundNumber = 1 /\ mem'.completedRounds = 0
          /\ mem'.isContinued /\ ~mem'.showGameSummary /\ ~summaryTimer'
          /\ mem'.currentScore = mem.currentScore
          /\ mem'.highScore = mem.highScore
          /\ mem'.gameSessionId = mem.gameSessionId
          /\ mem'.guessCount = 0 /\ ~mem'.gameOver
          /\ IF mem.nextRound # null
             THEN mem'.imageUrl = Some(mem.nextRound[1].image.url)
             ELSE \E u \in tasks' \ tasks : u.kind = "fetch"]_vars

\* The session of the restored summary was continued with its 5 points
C28_Witness ==
    /\ mounted /\ mem.isContinued /\ ~mem.showGameSummary
    /\ mem.roundNumber = 1 /\ mem.completedRounds = 0
    /\ mem.currentScore = 5 /\ mem.imageUrl # null /\ ~mem.gameOver

\* A step of the mounted screen that is not the hydration of a restore
OwnStep == mounted /\ mounted' /\ inst' = inst /\ ~(\E t \in tasks : RestoreReads(t))

\* startGame shows a round: an image that was not on the screen
RoundStarted == OwnStep /\ mem'.imageUrl # null /\ mem'.imageUrl # mem.imageUrl

\* submitGuess takes a guess
GuessTaken == OwnStep /\ mem'.guessCount = mem.guessCount + 1

\* A prefetch with the next request id is begun
PrefetchBegun ==
    /\ prefetchId' = prefetchId + 1
    /\ \E u \in tasks' \ tasks : u.kind = "prefetch" /\ u.tok = prefetchId'

\* C31: every round start that shows a round begins a prefetch of the round
\* after it, and no guess changes the round counter (it is the advance that
\* increments it), not even the guess that completes a round.
C31_StartPrefetchesAdvanceCounts ==
    [][/\ RoundStarted => PrefetchBegun
       /\ GuessTaken => mem'.roundNumber = mem.roundNumber]_vars

\* C36: while a game screen stays mounted, no step lowers its in-memory high
\* score, whatever the order in which the stored-high-score load, the restore
\* and the guesses take effect.
C36_HighScoreMonotone ==
    [][(mounted /\ mounted' /\ inst' = inst) => mem'.highScore >= mem.highScore]_vars

---------------------------------------------------------------------------
(* The summary delay: a session restored in its last round, two wrong      *)
(* guesses made.  The player finishes the round; the app may go to the     *)
(* background and come back, and the process may be killed and started     *)
(* again, at any moment.  Storage is reliable.  The only progress assumed  *)
(* is that a pending summary timer fires.                                  *)

InitSummary == InitWith(GameScreens, {SnapshotOf(LastRoundMem, Now0)}, {NoRaw})

NextSummary ==
    \/ Mount(null)
    \/ Kill
    \/ \E next \in {"active", "background"} : handleAppStateChange(next)
    \/ \E t \in tasks : StorageDone(t, TRUE)
    \/ \E t \in tasks : RestoreDone(t, TRUE)
    \/ \E t \in tasks : LoadHighDone(t, TRUE)
    \/ \E t \in tasks : PrefetchDone(t, "round")
    \/ \E g \in GuessInputs : TypeGuess(g)
    \/ submitGuess
    \/ SummaryTimerFires

SpecSummary ==
    InitSummary /\ [][NextSummary]_vars /\ WF_vars(SummaryTimerFires)

\* C11: whenever the mounted screen has completed TOTAL_ROUNDS rounds, the
\* game summary eventually becomes visible (or the process is killed, after
\* which a restored screen owes the summary again).
C11_SummaryEventuallyShown ==
    (mounted /\ mem.completedRounds >= TOTAL_ROUNDS)
        ~> (~mounted \/ mem.showGameSummary)

---------------------------------------------------------------------------
(* New game and the session start: a screen that restores the summary of  *)
(* a finished session (score 5, session "s0").  The player starts a new    *)
(* game, plays every round with a first correct guess, and leaves from the *)
(* summary; the player acts when storage and the prefetch have answered.   *)
(* The leaderboard submission of New Game and the session start may each   *)
(* fail; storage and the Round Source are reliable.  A screen instance may *)
(* take MaxToken request ids, enough for a whole session after the         *)
(* restored one.                                                           *)

InitNewGame ==
    InitRun(GameScreens, {SnapshotOf(SummaryMem, Now0)}, {NoRaw}, MaxToken)

\* Storage and the prefetch have answered
Quiet == \A t \in tasks : t.kind \notin {"getItem", "setItem", "removeItem", "prefetch"}

NextNewGame ==
    \/ Mount(null)
    \/ \E t \in tasks : StorageDone(t, TRUE)
    \/ \E t \in tasks : RestoreDone(t, TRUE)
    \/ \E t \in tasks : LoadHighDone(t, TRUE)
    \/ \E t \in tasks, ok \in BOOLEAN : SessionDone(t, ok)
    \/ \E t \in tasks : StoreIdDone(t)
    \/ \E t \in tasks : FetchDone(t, "round")
    \/ \E t \in tasks : PrefetchDone(t, "round")
    \/ Quiet /\ TypeGuess("France")
    \/ Quiet /\ submitGuess
    \/ Quiet /\ NextGame
    \/ SummaryTimerFires
    \/ Quiet /\ NewGame
    \/ \E t \in tasks, ok \in BOOLEAN : NewGameSubmitDone(t, ok)
    \/ Quiet /\ handleReturnToMainMenu
    \/ \E t \in tasks : ExitSubmitDone(t, TRUE)
    \/ \E t \in tasks : ExitClearDone(t, TRUE)

SpecNewGame == InitNewGame /\ [][NextNewGame]_vars

\* C12: when the leaderboard submission that New Game awaits returns on the
\* mounted screen, with success or with failure, the score, the correct
\* answers, the completed rounds and the round number are reset and a new
\* session start is called.
C12_NewGameResets ==
    [][\A t \in tasks :
          t.kind = "submit" /\ t.cont = "newGame" /\ Live(t) /\ t \notin tasks'
          => /\ mem'.currentScore = 0 /\ mem'.correctAnswers = 0
             /\ mem'.completedRounds = 0 /\ mem'.roundNumber = 1
             /\ \E u \in tasks' \ tasks : u.kind = "session"]_vars

\* C13: when the session start fails play goes on (a round is shown or
\* fetched), and no score submission is issued while the current session is
\* one whose start failed.
C13_NoSubmitWhenOffline ==
    [][/\ (~offline /\ offline')
             => (mem'.imageUrl # null \/ \E u \in tasks' \ tasks : u.kind = "fetch")
       /\ (\E u \in tasks' \ tasks : u.kind = "submit") => ~offline]_vars

\* startGame runs and finds a round in the closure's nextRound: it shows the
\* round and (GameScreen) issues the next prefetch without an await between
StartsFromSlot ==
    /\ mounted /\ mounted' /\ inst' = inst
    /\ \E u \in tasks' \ tasks : u.kind = "prefetch"
    /\ \A t \in tasks \ tasks' : t.kind \notin {"fetch", "getItem"}

\* startGame runs and finds null in the closure's nextRound
StartsByFetch ==
    /\ mounted /\ mounted' /\ inst' = inst
    /\ \E u \in tasks' \ tasks : u.kind = "fetch"

\* C25: a round start that takes its round from the prefetch slot shows the
\* round the slot holds at that moment and leaves the slot empty, and a round
\* start that fetches does so only when the slot is empty; so no prefetched
\* round starts two rounds.
C25_SlotConsumedOnce ==
    [][/\ StartsFromSlot =>
            /\ mem.nextRound # null
            /\ mem'.nextRound = null
            /\ mem'.imageUrl = Some(mem.nextRound[1].image.url)
       /\ StartsByFetch => mem.nextRound = null]_vars


---------------------------------------------------------------------------
(* Resuming and leaving a persisting screen: MainMenu, GameScreen,
   PanoGameScreen and AiDuel side by side.  A persisting storage call may fail. *)

MenuSnapshot ==
    StringifyMenu([prefetchedRound |-> Some(Round("menu", TRUE)), currentIndex |-> 1,
                   cachedImages |-> <<1>>], Now0)

\* A stored value without savedAt
MenuNoSavedAt == JObj([currentIndex |-> JNum(1)])

InitMenuSpec ==
    \/ InitWith({"Menu"}, {NoRaw, MenuSnapshot, MenuNoSavedAt}, {NoRaw})
    \/ InitWith(GameScreens, {NoRaw, SnapshotOf(RoundOverMem, Now0)}, {NoRaw})
    \/ InitWith({"AiDuel"}, {NoRaw, StringifyDuel(LastDuel(DuelMatchMem), Now0)}, {NoRaw})

NextMenuSpec ==
    \/ MountMenu
    \/ MenuTeardown
    \/ \E next \in {"background", "active"} : MenuAppStateChange(next)
    \/ \E t \in tasks : MenuRestoreDone(t, TRUE)
    \/ \E t \in tasks : MenuRestoreClearDone(t, TRUE)
    \/ \E t \in tasks, cached \in {<<>>, <<1>>}, idx \in MenuImages : LoadImagesDone(t, cached, idx)
    \/ \E t \in tasks : MenuBootClearDone(t, TRUE)
    \/ \E t \in tasks, o \in {"round", "absent"} : MenuPrefetchDone(t, o)
    \/ handleStartGame
    \/ \E t \in tasks, ok \in BOOLEAN : StorageDone(t, ok)
    \/ Mount(null)
    \/ Teardown
    \/ \E next \in {"background", "active"} : handleAppStateChange(next)
    \/ \E t \in tasks : RestoreDone(t, TRUE)
    \/ \E t \in tasks : BootClearDone(t, TRUE)
    \/ \E t \in tasks : LoadHighDone(t, TRUE)
    \/ \E t \in tasks : SessionDone(t, TRUE)
    \/ \E t \in tasks : StoreIdDone(t)
    \/ \E t \in tasks : FetchDone(t, "round")
    \/ \E t \in tasks, o \in {"round", "absent"} : PrefetchDone(t, o)
    \/ MountDuel(null)
    \/ DuelTeardown
    \/ \E next \in {"background", "active"} : DuelAppStateChange(next)
    \/ \E t \in tasks : DuelRestoreDone(t, TRUE)
    \/ \E t \in tasks : DuelBootClearDone(t, TRUE)
    \/ \E t \in tasks, ok \in BOOLEAN : MatchDone(t, ok)

SpecMenu == InitMenuSpec /\ [][NextMenuSpec]_vars

\* The app comes back to 'active' under a mounted screen
Resumed == mounted /\ appState # "active" /\ appState' = "active"

\* A read of the screen's own key by the mounted instance
RestoreRead(u) == u.kind = "getItem" /\ u.key = KeyOf(screen) /\ u.inst = inst

\* C17: on every screen that persists a snapshot, a transition of the app to
\* 'active' starts a restore attempt, i.e. once the event is handled a read of
\* the screen's own key by the mounted instance is in flight.
C17_ActiveTriggersRestore ==
    [][Resumed => \E u \in tasks' : RestoreRead(u)]_vars

\* The write the background handler of the mounted screen issues now
BackgroundWrite ==
    IF screen = "Menu" THEN MenuPersistTask(inst, menu) ELSE PersistTask(inst, mem)

\* C18: when MainMenu, GameScreen or PanoGameScreen is torn down with the
\* suppression flag unset, the teardown step issues the very write the
\* background handler would issue in that state.
C18_TeardownPersists ==
    [][(/\ screen \in {"Menu"} \cup GameScreens
        /\ mounted /\ ~mounted' /\ ~skipPersist)
          => BackgroundWrite \in tasks']_vars

\* The slot holds the round that the prefetch t asked for
OwnRound(slot, u) == slot # null /\ slot[1].image.url = u

\* C23: a prefetch that returns to the mounted screen either stores its own
\* round or, when its producer failed, leaves the prefetch slot exactly as it
\* was (prefetchNextRound of the game screens, prefetchInitialRound of
\* MainMenu).
C23_FailedPrefetchKeepsSlot ==
    [][\A t \in tasks \ tasks' :
          /\ (t.kind = "prefetch" /\ Live(t))
                => \/ mem'.nextRound = mem.nextRound
                   \/ OwnRound(mem'.nextRound, PrefUrl(t.inst, t.tok))
          /\ (t.kind = "menuPrefetch" /\ Live(t))
                => \/ menu'.prefetchedRound = menu.prefetchedRound
                   \/ OwnRound(menu'.prefetchedRound, "menu")]_vars

\* A persisting call: a write or remove of a snapshot that no continuation
\* waits for
PersistCall(t) == t.kind \in {"setItem", "removeItem"} /\ t.cont = ""

---------------------------------------------------------------------------
(* AiDuel: a match with guesses, rematch and exit.  Storage is reliable. *)

InitDuelSpec ==
    InitWith({"AiDuel"}, {NoRaw, StringifyDuel(LastDuel(DuelMatchMem), Now0)}, {NoRaw})

NextDuelSpec ==
    \/ MountDuel(null)
    \/ DuelTeardown
    \/ \E t \in tasks : StorageDone(t, TRUE)
    \/ \E t \in tasks : DuelRestoreDone(t, TRUE)
    \/ \E t \in tasks : DuelBootClearDone(t, TRUE)
    \/ \E t \in tasks, ok \in BOOLEAN : MatchDone(t, ok)
    \/ DuelTypeGuess("France")
    \/ handleSubmitGuess
    \/ \E t \in tasks, o \in {"right", "match_completed", "error"} : DuelGuessDone(t, o)
    \/ handleNextRound
    \/ handleRematch
    \/ handleReturnToMenu

SpecDuel == InitDuelSpec /\ [][NextDuelSpec]_vars

\* The evaluating and bootstrapping transitions of the mounted screen that
\* are in flight: a guess submission, a bootstrap (its clear or its match
\* start), a session start or a round fetch
Transitions ==
    {t \in tasks :
        /\ Live(t)
        /\ \/ t.kind \in {"duelGuess", "match", "session", "fetch"}
           \/ t.cont = "duelBoot"}

\* C21: at most one evaluating or bootstrapping transition of the mounted
\* screen is in flight at any time.
C21_OneTransitionAtATime == Cardinality(Transitions) <= 1


\* The storage calls on the snapshot key of the screen that one screen
\* instance has in flight
SnapshotCalls(i) ==
    {t \in tasks :
        /\ t.inst = i /\ t.key = KeyOf(screen)
        /\ t.kind \in {"getItem", "setItem", "removeItem"}}

\* C22: a screen instance never has two storage calls on its snapshot key in
\* flight at once, and the snapshot keys of the four screens are pairwise
\* distinct.
C22_SnapshotCallsSequenced ==
    /\ \A i \in 1..inst : Cardinality(SnapshotCalls(i)) <= 1
    /\ Cardinality({GameKey, PanoKey, DuelKey, MenuKey}) = 4


\* The fields of AiDuel that describe the match being played
MatchFields(d) ==
    <<d.scores, d.status, d.history, d.currentRound, d.queuedRound, d.latestResult>>

\* C33: when the answer to a guess arrives on the mounted screen while the
\* match on the screen is another one than the match the guess was submitted
\* for (a rematch started it in the meantime), the scores, status, history,
\* current round, queued round and latest result of the match stay as they are.
C33_StaleGuessLeavesNewMatch ==
    [][\A t \in tasks \ tasks' :
          /\ t.kind = "duelGuess" /\ Live(t)
          /\ duel.matchId # null /\ duel.matchId # t.val
          => MatchFields(duel') = MatchFields(duel)]_vars

---------------------------------------------------------------------------
(* The summary timer and the events that cancel it: a session restored in  *)
(* its last round and mounted once; the player finishes it, continues,     *)
(* leaves or puts the app in the background.  Storage and the Round Source *)
(* are reliable.                                                           *)

\* No storage call is in flight
Settled == \A t \in tasks : t.kind \notin {"getItem", "setItem", "removeItem"}

InitTimer == InitWith(GameScreens, {SnapshotOf(LastRoundMem, Now0)}, {NoRaw})

NextTimer ==
    \/ inst = 0 /\ Mount(null)
    \/ Settled /\ Teardown
    \/ \E next \in {"active", "background"} : Settled /\ handleAppStateChange(next)
    \/ \E t \in tasks : StorageDone(t, TRUE)
    \/ \E t \in tasks : RestoreDone(t, TRUE)
    \/ \E t \in tasks : LoadHighDone(t, TRUE)
    \/ \E t \in tasks : PrefetchDone(t, "round")
    \/ \E t \in tasks : FetchDone(t, "round")
    \/ \E g \in GuessInputs : Settled /\ TypeGuess(g)
    \/ Settled /\ submitGuess
    \/ SummaryTimerFires
    \/ Settled /\ continueGame
    \/ Settled /\ NextGame
    \/ Settled /\ handleReturnToMainMenu
    \/ \E t \in tasks : ExitSubmitDone(t, TRUE)
    \/ \E t \in tasks : ExitClearDone(t, TRUE)

SpecTimer == InitTimer /\ [][NextTimer]_vars


\* C29: a summary timer is pending only on a mounted screen of an app in the
\* foreground whose session sits at the end of its last round: going to the
\* background, teardown, explicit exit, continue and every round start leave
\* no timer behind, so none armed before such an event can show the summary.
C29_NoTimerAfterMovingAway ==
    summaryTimer =>
       /\ mounted /\ appState = "active"
       /\ mem.gameOver /\ mem.completedRounds >= TOTAL_ROUNDS

\* The timer armed by the last guess was cancelled by backgrounding
C29_Witness ==
    /\ mounted /\ appState = "background" /\ ~summaryTimer
    /\ mem.gameOver /\ mem.completedRounds >= TOTAL_ROUNDS /\ ~mem.showGameSummary

---------------------------------------------------------------------------
(* Score submission: a screen restored at the summary of a session with    *)
(* points, without points, or without a session id.  The player toggles    *)
(* the leaderboard switch, continues, starts a new game or leaves, pressing *)
(* any button any number of times; a submission and a session start may    *)
(* fail.  Storage and the Round Source are reliable; every round start    *)
(* finds the slot filled.                                                  *)

InitSubmit ==
    InitWith(GameScreens,
             {SnapshotOf(SummaryMem, Now0),
              SnapshotOf([SummaryMem EXCEPT !.currentScore = 0], Now0),
              SnapshotOf([SummaryMem EXCEPT !.gameSessionId = null], Now0)},
             {NoRaw})

NextSubmit ==
    \/ inst = 0 /\ Mount(null)
    \/ \E t \in tasks : StorageDone(t, TRUE)
    \/ \E t \in tasks : RestoreDone(t, TRUE)
    \/ \E t \in tasks : LoadHighDone(t, TRUE)
    \/ \E t \in tasks, ok \in BOOLEAN : SessionDone(t, ok)
    \/ \E t \in tasks : StoreIdDone(t)
    \/ \E t \in tasks : PrefetchDone(t, "round")
    \/ TypeGuess("France")
    \/ submitGuess
    \/ ToggleLeaderboard
    \/ continueGame
    \/ NewGame
    \/ \E t \in tasks, ok \in BOOLEAN : NewGameSubmitDone(t, ok)
    \/ handleReturnToMainMenu
    \/ \E t \in tasks, ok \in BOOLEAN : ExitSubmitDone(t, ok)
    \/ \E t \in tasks : ExitClearDone(t, TRUE)

SpecSubmit == InitSubmit /\ [][NextSubmit]_vars

\* The score submissions a step issues
SubmissionsIssued == {u \in tasks' \ tasks : u.kind = "submit"}

\* C32: a score submission is issued only while the user has not opted out,
\* the score is above 0 and a session id is present; a step issues at most one
\* and only as a button press, never as the continuation of a call that
\* returned (no automatic retry); when the submission an exit awaits returns,
\* with success or failure, the exit goes on to clear the snapshot, and when
\* that returns on the mounted screen the screen navigates away.
C32_SubmissionGuarded ==
    [][/\ SubmissionsIssued # {}
          => /\ mem.submitToLeaderboard
             /\ mem.currentScore > 0
             /\ mem.gameSessionId # null
             /\ mem.showGameSummary
             /\ tasks \ tasks' = {}
       /\ Cardinality(SubmissionsIssued) <= 1
       /\ \A t \in tasks \ tasks' :
             t.kind = "submit" /\ t.cont = "exit"
             => \E u \in tasks' : /\ u.kind = "removeItem" /\ u.cont = "exitClear"
                                  /\ u.inst = t.inst
       /\ \A t \in tasks \ tasks' :
             t.cont = "exitClear" /\ Live(t) => ~mounted' /\ exited']_vars

\* The exit of a mounted screen awaits its score submission
C32_Witness ==
    /\ mounted /\ skipPersist /\ WillSubmit(mem)
    /\ \E t \in tasks : t.kind = "submit" /\ t.cont = "exit" /\ Live(t)

---------------------------------------------------------------------------
(* What the player can do next: a screen restored in the last round of a   *)
(* session or between two rounds.  The player guesses, advances, continues *)
(* and presses the hardware back button; the app goes to the background    *)
(* and comes back; a fetch or a prefetch of the Round Source may return     *)
(* nothing.  Storage is reliable.                                          *)

InitDeadEnd ==
    InitWith(GameScreens,
             {SnapshotOf(LastRoundMem, Now0), SnapshotOf(RoundOverMem, Now0)},
             {NoRaw})

NextDeadEnd ==
    \/ inst = 0 /\ Mount(null)
    \/ \E next \in {"active", "background"} : Settled /\ handleAppStateChange(next)
    \/ \E t \in tasks : StorageDone(t, TRUE)
    \/ \E t \in tasks : RestoreDone(t, TRUE)
    \/ \E t \in tasks : LoadHighDone(t, TRUE)
    \/ \E t \in tasks, o \in {"round", "absent"} : PrefetchDone(t, o)
    \/ \E t \in tasks, o \in {"round", "absent"} : FetchDone(t, o)
    \/ \E g \in GuessInputs : TypeGuess(g)
    \/ submitGuess
    \/ NextGame
    \/ SummaryTimerFires
    \/ backAction
    \/ continueGame

SpecDeadEnd == InitDeadEnd /\ [][NextDeadEnd]_vars

\* A call the screen waits for is in flight: the bootstrap's storage calls,
\* a round fetch, a session start or a score submission
Awaiting ==
    \E t \in tasks :
       \/ t.kind \in {"fetch", "session", "storeId", "submit"}
       \/ t.cont \in {"restore", "restoreClear", "bootClear", "exitClear"}

\* C34: on a mounted game screen in the foreground that waits for no call and
\* for no summary timer, the input with the Submit button, the Next Game
\* button or the summary with its Continue, New Game and Return buttons is
\* on the screen.
C34_NoDeadEnd ==
    (/\ screen \in GameScreens /\ mounted /\ appState = "active"
     /\ ~Awaiting /\ ~summaryTimer)
       => InputShown(mem) \/ AdvanceOffered(mem) \/ mem.showGameSummary

---------------------------------------------------------------------------
(* The counters of a session: a screen that starts a fresh session, or     *)
(* restores the summary of a finished one.  The player guesses right or    *)
(* wrong (the right answer is only ever the first guess of a round),       *)
(* advances, continues and starts new games, each button pressed once      *)
(* storage and the prefetch have answered.  Storage, the services and the  *)
(* Round Source are reliable.                                              *)

InitCounters ==
    InitRun(GameScreens, {NoRaw, SnapshotOf(SummaryMem, Now0)}, {NoRaw}, MaxToken)

NextCounters ==
    \/ inst = 0 /\ Mount(null)
    \/ \E t \in tasks : StorageDone(t, TRUE)
    \/ \E t \in tasks : RestoreDone(t, TRUE)
    \/ \E t \in tasks : BootClearDone(t, TRUE)
    \/ \E t \in tasks : LoadHighDone(t, TRUE)
    \/ \E t \in tasks : SessionDone(t, TRUE)
    \/ \E t \in tasks : StoreIdDone(t)
    \/ \E t \in tasks : FetchDone(t, "round")
    \/ \E t \in tasks : PrefetchDone(t, "round")
    \/ \E g \in GuessInputs : Quiet /\ (g = "France" => mem.guessCount = 0) /\ TypeGuess(g)
    \/ Quiet /\ submitGuess
    \/ Quiet /\ NextGame
    \/ SummaryTimerFires
    \/ Quiet /\ continueGame
    \/ Quiet /\ NewGame
    \/ \E t \in tasks : NewGameSubmitDone(t, TRUE)

SpecCounters == InitCounters /\ [][NextCounters]_vars

Min(a, b) == IF a < b THEN a ELSE b

\* C37: on the mounted screen at most TOTAL_ROUNDS (10) rounds are completed,
\* the round number is the completed count plus one, capped at 10, and at
\* most 3 guesses are counted, each wrong guess in the history being counted.
C37_CountersInRange ==
    mounted =>
       /\ mem.completedRounds \in 0..TOTAL_ROUNDS
       /\ mem.roundNumber \in 1..TOTAL_ROUNDS
       /\ mem.roundNumber = Min(mem.completedRounds + 1, TOTAL_ROUNDS)
       /\ mem.guessCount \in 0..3
       /\ Len(mem.incorrectGuesses) <= mem.guessCount


\* C38: the number of correct answers the summary shows ('You got N out of 10
\* correct') is at most TOTAL_ROUNDS (10) on the mounted screen, also in a
\* session that was continued.
C38_CorrectAtMostTotal ==
    mounted => mem.correctAnswers <= TOTAL_ROUNDS

---------------------------------------------------------------------------
(* Handing a prefetched round over: MainMenu over a stored snapshot whose  *)
(* slot holds a round, while the Round Source returns nothing.  The player *)
(* starts games; the app goes to the background and comes back, and the    *)
(* process may be killed and started again.  Storage is reliable.          *)

MenuStoredSnapshot ==
    StringifyMenu([prefetchedRound |-> Some(Round("stored", TRUE)), currentIndex |-> 1,
                   cachedImages |-> <<1>>], Now0)

InitHandOver == InitWith({"Menu"}, {MenuStoredSnapshot}, {NoRaw})

NextHandOver ==
    \/ MountMenu
    \/ Kill
    \/ \E next \in {"background", "active"} : MenuAppStateChange(next)
    \/ \E t \in tasks : MenuRestoreDone(t, TRUE)
    \/ \E t \in tasks, cached \in {<<>>, <<1>>}, idx \in MenuImages : LoadImagesDone(t, cached, idx)
    \/ \E t \in tasks : MenuPrefetchDone(t, "absent")
    \/ handleStartGame
    \/ \E t \in tasks : StorageDone(t, TRUE)

SpecHandOver == InitHandOver /\ [][NextHandOver]_vars

\* The getItem of a restore of the MainMenu snapshot returns to the mounted screen
MenuRestoreReturns ==
    \E t \in tasks \ tasks' :
       t.kind = "getItem" /\ t.key = MenuKey /\ Live(t) /\ mounted'

\* C39: the step that hands the slot's round to a game screen leaves the slot
\* empty, and no restore of the MainMenu snapshot leaves in the slot a round
\* that has been handed to a game screen before.
C39_RoundHandedOnce ==
    [][/\ handed' # handed => menu'.prefetchedRound = null
       /\ (MenuRestoreReturns /\ menu'.prefetchedRound # null)
             => menu'.prefetchedRound[1].image.url \notin handed]_vars

====
